---- MODULE Spec2Model ----
(***************************************************************************)
(* A model of the CTI platform's feed orchestration core:                  *)
(*   - Scheduler            (backend/Orchestration/scheduler.py)           *)
(*   - FeedManager          (backend/Orchestration/Feed_manager.py)        *)
(*   - CTIPipeline          (backend/Orchestration/pipeline.py)            *)
(*   - Deduplicator         (backend/processors/deduplicator.py)           *)
(*   - FeedDAO.update_stats (backend/db/feed_dao.py)                       *)
(*   - BaseFeed run state   (backend/feeds/clearweb/base_feed.py)          *)
(*   - SecureHTTPClient     (backend/core/http_client.py)                  *)
(* The specifications share the state: SpecSched drives the scheduler's    *)
(* loop, task threads and stop(); SpecTimed the same loop on a time scale  *)
(* where its own statements take no time, and SpecFair adds fairness to    *)
(* it; SpecDedup drives the deduplicator and its restarts, SpecRace two    *)
(* threads inside deduplicate; Spec the feed manager's execute_feed;       *)
(* SpecPipe the pipeline's process_feed and run_all_feeds; SpecHttp the    *)
(* HTTP client's fetch.                                                    *)
(***************************************************************************)
EXTENDS Integers, Sequences, FiniteSets, TLC

(***************************************************************************)
(* Bounds of the model                                                     *)
(***************************************************************************)
MaxThreads == 2
MaxTime == 30
IntervalSeconds == 20
MaxBatch == 2
MaxCalls == 2
MaxFetches == 2

(***************************************************************************)
(* Program constants                                                       *)
(***************************************************************************)
PollSeconds == 10
JoinTimeout == 15

VARIABLES
  now,        \* wall clock of the scheduler process, in seconds
  tasks,      \* Scheduler._tasks: task id -> task record
  shutdown,   \* Scheduler._shutdown_event
  loop,       \* position of the _run_loop thread
  threads,    \* the _execute_wrapper threads started by the loop
  finishedAt, \* per task: the wall-clock time its last execution finished
  stopCall,   \* position of the caller of Scheduler.stop()
  seen,       \* Deduplicator._seen_fingerprints
  cacheFile,  \* content of <cache_dir>/fingerprints.pkl
  dedupCall,  \* the last call made on the Deduplicator
  dedupThreads,   \* the concurrent callers of deduplicate, each at its line
  stateFile,  \* per feed: content of <raw_data_dir>/feed_state.json
  evidence,   \* per feed: the raw payloads written by save_raw_data
  stats,      \* per feed: its row of the feeds table
  execCall,   \* the last call of FeedManager.execute_feed
  enabledCache,   \* FeedManager._enabled_cache: the names of the enabled feeds
  victimSink,     \* the victim hashes persisted by the Victim sink, in order
  indicatorSink,  \* the fingerprints persisted by the Indicator sink, in order
  pipeCall,   \* the last call of CTIPipeline.process_feed
  runCall,    \* the last call of CTIPipeline.run_all_feeds
  httpClient,      \* the class of the HTTP client object
  httpClock,       \* time.time() of the HTTP client's process, in half seconds
  lastRequestTime, \* SecureHTTPClient._last_request_time: netloc -> time
  httpCall,   \* the last call of SecureHTTPClient.fetch
  readCall,   \* the last call of RansomwareMonitorFeed._safe_read_response
  normCall,   \* two calls of IOCNormalizer.normalize, side by side
  scoreCall,  \* the batch handed to the scoring engines, scored in place
  feedsTable, \* the names of the rows of the feeds table with enabled = TRUE
  managerCall, \* the last call of FeedManager.__init__ or register_feed
  statsCall   \* the calls of FeedDAO.update_stats in progress on one feed

schedVars == <<now, tasks, shutdown, loop, threads, finishedAt, stopCall>>
dedupVars == <<seen, cacheFile, dedupCall, dedupThreads>>
feedVars == <<stateFile, evidence, stats>>
pipeVars == <<enabledCache, victimSink, indicatorSink, pipeCall, runCall>>
httpVars == <<httpClient, httpClock, lastRequestTime, httpCall>>
calcVars == <<readCall, normCall, scoreCall, feedsTable, managerCall, statsCall>>
nonSchedVars ==
  <<seen, cacheFile, dedupCall, dedupThreads, stateFile, evidence, stats,
    execCall, enabledCache, victimSink, indicatorSink, pipeCall, runCall,
    httpClient, httpClock, lastRequestTime, httpCall, readCall, normCall,
    scoreCall, feedsTable, managerCall, statsCall>>

(***************************************************************************)
(* Scheduler                                                               *)
(***************************************************************************)
TaskIds == {"feeds", "cleanup"}
\* dict iteration order of self._tasks (insertion order)
TaskOrder == <<"feeds", "cleanup">>
ThreadIds == 1..MaxThreads

\* schedule_task: the record stored in self._tasks[task_id]
ScheduledTask(enabled) ==
  [enabled |-> enabled,
   interval_seconds |-> IntervalSeconds,
   last_run |-> -1,
   next_run |-> 0,
   run_count |-> 0,
   is_running |-> FALSE]

\* no wall-clock time yet (a task that has not finished any execution)
NoTime == -1

\* a thread slot not started yet, and one whose thread has ended
NoThread == [pc |-> "none", task |-> "feeds"]
EndedThread == [pc |-> "ended", task |-> "feeds"]

SchedInit ==
  /\ now = 0
  /\ tasks \in {[t \in TaskIds |-> ScheduledTask(en[t])] : en \in [TaskIds -> BOOLEAN]}
  /\ shutdown = FALSE
  /\ loop = [pc |-> "while", now |-> 0, idx |-> 1, wait_from |-> 0]
  /\ threads = [i \in ThreadIds |-> NoThread]
  /\ finishedAt = [t \in TaskIds |-> NoTime]
  /\ stopCall = [pc |-> "idle", since |-> 0, timed_out |-> FALSE, running |-> {}]

\* time passes
Tick ==
  /\ now + PollSeconds <= MaxTime
  /\ now' = now + PollSeconds
  /\ UNCHANGED <<tasks, shutdown, loop, threads>>
  /\ UNCHANGED <<finishedAt, stopCall>>
  /\ UNCHANGED nonSchedVars

\* _run_loop line 80-81: test the shutdown event, read the clock
LoopWhile ==
  /\ loop.pc = "while"
  /\ loop' = IF shutdown
               THEN [loop EXCEPT !.pc = "exit"]
               ELSE [loop EXCEPT !.pc = "for", !.now = now, !.idx = 1]
  /\ UNCHANGED <<now, tasks, shutdown, threads>>
  /\ UNCHANGED <<finishedAt, stopCall>>
  /\ UNCHANGED nonSchedVars

\* _run_loop line 87: the due test the loop makes for one task
LoopDue(t) ==
  /\ tasks[t].enabled
  /\ loop.now >= tasks[t].next_run
  /\ ~tasks[t].is_running

\* _run_loop line 89: Thread(...).start() returns as soon as the thread is
\* started; the loop holds no reference to the thread and never joins it
LoopJoins(i) == threads[i].pc \notin {"none", "ended"}
LoopWaitsFor(i) == FALSE

\* _run_loop lines 83-89: visit one task, start a thread for it when it is due
LoopVisit ==
  /\ loop.pc = "for"
  /\ loop.idx <= Len(TaskOrder)
  /\ \A i \in ThreadIds : ~LoopWaitsFor(i)
  /\ LET t == TaskOrder[loop.idx] IN
       IF LoopDue(t)
         THEN \E i \in ThreadIds :
                /\ threads[i].pc = "none"
                /\ \A j \in ThreadIds : j < i => threads[j].pc # "none"
                /\ threads' = [threads EXCEPT ![i] = [pc |-> "spawned", task |-> t]]
         ELSE threads' = threads
  /\ loop' = [loop EXCEPT !.idx = loop.idx + 1]
  /\ UNCHANGED <<now, tasks, shutdown>>
  /\ UNCHANGED <<finishedAt, stopCall>>
  /\ UNCHANGED nonSchedVars

\* _run_loop line 92: all tasks visited, start waiting on the shutdown event
LoopSleep ==
  /\ loop.pc = "for"
  /\ loop.idx > Len(TaskOrder)
  /\ \A i \in ThreadIds : ~LoopWaitsFor(i)
  /\ loop' = [loop EXCEPT !.pc = "wait", !.wait_from = now]
  /\ UNCHANGED <<now, tasks, shutdown, threads>>
  /\ UNCHANGED <<finishedAt, stopCall>>
  /\ UNCHANGED nonSchedVars

\* _run_loop line 92: wait(timeout=10) returns on the timeout or on the event
LoopWake ==
  /\ loop.pc = "wait"
  /\ shutdown \/ now >= loop.wait_from + PollSeconds
  /\ loop' = [loop EXCEPT !.pc = "while"]
  /\ UNCHANGED <<now, tasks, shutdown, threads>>
  /\ UNCHANGED <<finishedAt, stopCall>>
  /\ UNCHANGED nonSchedVars

\* _execute_wrapper lines 61-64: the overlap check (a thread that skips ends)
WrapperCheck(i) ==
  /\ threads[i].pc = "spawned"
  /\ threads' = [threads EXCEPT ![i] =
                   IF tasks[threads[i].task].is_running THEN EndedThread
                   ELSE [threads[i] EXCEPT !.pc = "checked"]]
  /\ UNCHANGED <<now, tasks, shutdown, loop>>
  /\ UNCHANGED <<finishedAt, stopCall>>
  /\ UNCHANGED nonSchedVars

\* _execute_wrapper line 66
WrapperMark(i) ==
  /\ threads[i].pc = "checked"
  /\ tasks' = [tasks EXCEPT ![threads[i].task].is_running = TRUE]
  /\ threads' = [threads EXCEPT ![i].pc = "running"]
  /\ UNCHANGED <<now, shutdown, loop>>
  /\ UNCHANGED <<finishedAt, stopCall>>
  /\ UNCHANGED nonSchedVars

\* _execute_wrapper lines 69-71: task_func() returns, the run is counted
TaskReturns(i) ==
  /\ threads[i].pc = "running"
  /\ tasks' = [tasks EXCEPT ![threads[i].task].last_run = now,
                            ![threads[i].task].run_count = @ + 1]
  /\ threads' = [threads EXCEPT ![i].pc = "finally"]
  /\ UNCHANGED <<now, shutdown, loop>>
  /\ finishedAt' = [finishedAt EXCEPT ![threads[i].task] = now]
  /\ UNCHANGED stopCall
  /\ UNCHANGED nonSchedVars

\* _execute_wrapper lines 69, 72: task_func() raises into "except Exception"
TaskRaises(i) ==
  /\ threads[i].pc = "running"
  /\ threads' = [threads EXCEPT ![i].pc = "except"]
  /\ UNCHANGED <<now, tasks, shutdown, loop>>
  /\ finishedAt' = [finishedAt EXCEPT ![threads[i].task] = now]
  /\ UNCHANGED stopCall
  /\ UNCHANGED nonSchedVars

\* _execute_wrapper lines 72-74: the handler only logs; control passes to the
\* finally clause
HandlerEndsThread(thread) == EndedThread
AfterHandler(thread) == [thread EXCEPT !.pc = "finally"]

HandlerLogs(i) ==
  /\ threads[i].pc = "except"
  /\ threads' = [threads EXCEPT ![i] = AfterHandler(threads[i])]
  /\ UNCHANGED <<now, tasks, shutdown, loop>>
  /\ UNCHANGED <<finishedAt, stopCall>>
  /\ UNCHANGED nonSchedVars

\* _execute_wrapper line 75
WrapperClear(i) ==
  /\ threads[i].pc = "finally"
  /\ tasks' = [tasks EXCEPT ![threads[i].task].is_running = FALSE]
  /\ threads' = [threads EXCEPT ![i].pc = "reschedule"]
  /\ UNCHANGED <<now, shutdown, loop>>
  /\ UNCHANGED <<finishedAt, stopCall>>
  /\ UNCHANGED nonSchedVars

\* _execute_wrapper line 76 (the thread ends)
WrapperReschedule(i) ==
  /\ threads[i].pc = "reschedule"
  /\ tasks' = [tasks EXCEPT ![threads[i].task].next_run =
                 now + tasks[threads[i].task].interval_seconds]
  /\ threads' = [threads EXCEPT ![i] = EndedThread]
  /\ UNCHANGED <<now, shutdown, loop>>
  /\ UNCHANGED <<finishedAt, stopCall>>
  /\ UNCHANGED nonSchedVars

\* stop() line 107: signal the shutdown event
StopSignal ==
  /\ ~shutdown
  /\ shutdown' = TRUE
  /\ stopCall' = [pc |-> "join", since |-> now, timed_out |-> FALSE,
                  running |-> {i \in ThreadIds : threads[i].pc = "running"}]
  /\ UNCHANGED <<now, tasks, loop, threads, finishedAt>>
  /\ UNCHANGED nonSchedVars

\* stop() lines 108-110: self._thread.join(timeout=15) waits for the loop
\* thread to end, or for the timeout; then stop() returns
StopJoin ==
  /\ stopCall.pc = "join"
  /\ \/ /\ loop.pc = "exit"
        /\ stopCall' = [stopCall EXCEPT !.pc = "returned"]
     \/ /\ loop.pc # "exit"
        /\ now >= stopCall.since + JoinTimeout
        /\ stopCall' = [stopCall EXCEPT !.pc = "returned", !.timed_out = TRUE]
  /\ UNCHANGED <<now, tasks, shutdown, loop, threads, finishedAt>>
  /\ UNCHANGED nonSchedVars

SchedNext ==
  \/ Tick
  \/ LoopWhile
  \/ LoopVisit
  \/ LoopSleep
  \/ LoopWake
  \/ StopSignal
  \/ StopJoin
  \/ \E i \in ThreadIds : WrapperCheck(i)
  \/ \E i \in ThreadIds : WrapperMark(i)
  \/ \E i \in ThreadIds : TaskReturns(i)
  \/ \E i \in ThreadIds : TaskRaises(i)
  \/ \E i \in ThreadIds : HandlerLogs(i)
  \/ \E i \in ThreadIds : WrapperClear(i)
  \/ \E i \in ThreadIds : WrapperReschedule(i)

\* The scheduler on a time scale where the loop's own statements take no
\* time: the clock advances only while the loop cannot take a step (it is
\* inside wait(timeout=10), or it has ended).  The task threads run at any
\* speed, so an execution may stay in flight for any length of time.
LoopStep ==
  \/ LoopWhile
  \/ LoopVisit
  \/ LoopSleep
  \/ LoopWake

TimedTick ==
  /\ ~ENABLED LoopStep
  /\ Tick

TimedNext ==
  \/ TimedTick
  \/ LoopStep
  \/ \E i \in ThreadIds : WrapperCheck(i)
  \/ \E i \in ThreadIds : WrapperMark(i)
  \/ \E i \in ThreadIds : TaskReturns(i)
  \/ \E i \in ThreadIds : TaskRaises(i)
  \/ \E i \in ThreadIds : HandlerLogs(i)
  \/ \E i \in ThreadIds : WrapperClear(i)
  \/ \E i \in ThreadIds : WrapperReschedule(i)

\* schedule_task called again while the scheduler runs.  Line 46 binds
\* task_id to a new dict; a wrapper thread past line 61 keeps its reference
\* to the dict it read there, which stays in the heap under a name of its own
MaxReschedules == 1
Replaced(t, n) == t \o "#" \o ToString(n)
TaskIdOf(name) ==
  CHOOSE t \in TaskIds :
    name = t \/ \E n \in 1..Cardinality(DOMAIN tasks) : name = Replaced(t, n)

\* the wrapper threads that have read self._tasks[t] (line 61)
HoldsDict(i, t) ==
  /\ threads[i].task = t
  /\ threads[i].pc \in {"checked", "running", "except", "finally", "reschedule"}

\* schedule_task lines 32-57 with the id of a task that is already scheduled
ScheduleTask(t) ==
  /\ Cardinality(DOMAIN tasks \ TaskIds) < MaxReschedules
  /\ LET old == Replaced(t, Cardinality(DOMAIN tasks \ TaskIds) + 1) IN
       /\ tasks' = [k \in DOMAIN tasks \cup {old} |->
                      IF k = t THEN [ScheduledTask(TRUE) EXCEPT !.next_run = now]
                      ELSE IF k = old THEN tasks[t]
                      ELSE tasks[k]]
       /\ threads' = [i \in ThreadIds |->
                        IF HoldsDict(i, t) THEN [threads[i] EXCEPT !.task = old]
                        ELSE threads[i]]
       /\ finishedAt' = [k \in DOMAIN finishedAt \cup {old} |->
                           IF k = old THEN finishedAt[t] ELSE finishedAt[k]]
  /\ UNCHANGED <<now, shutdown, loop, stopCall>>
  /\ UNCHANGED nonSchedVars

ReschedNext ==
  \/ TimedNext
  \/ \E t \in TaskIds : ScheduleTask(t)

(***************************************************************************)
(* Deduplicator                                                            *)
(***************************************************************************)
\* Python's None, for a missing dict key or an Optional value
None == "None"

\* the fingerprints and the records handed to the Deduplicator directly
\* (a record is a dict with a "fingerprint" key or without one; two records
\* with the same fingerprint differ in their ioc_value)
Fingerprints == {"f1", "f2"}
Ioc(fingerprint, ioc_value) ==
  [fingerprint |-> fingerprint, ioc_type |-> "ip", ioc_value |-> ioc_value,
   victim_hash |-> None]
Iocs ==
  {Ioc(fp, "v1") : fp \in Fingerprints \cup {None, ""}} \cup {Ioc("f1", "v2")}

\* all sequences over S of length at most n
SeqsUpTo(S, n) == UNION {[1..k -> S] : k \in 0..n}

\* deduplicate line 96: "if not fingerprint" (None and "" are falsy)
Falsy(fingerprint) == fingerprint = None \/ fingerprint = ""

\* deduplicate line 101 / is_duplicate line 130
is_duplicate(fingerprint, cache) == fingerprint \in cache

\* deduplicate lines 107-109: a new IOC is returned and recorded
AdmitForgetful(acc, ioc) ==
  [acc EXCEPT !.unique = Append(acc.unique, ioc)]
AdmitFirst(acc, ioc) ==
  [acc EXCEPT !.unique = <<ioc>> \o acc.unique,
              !.new_fingerprints = acc.new_fingerprints \cup {ioc.fingerprint},
              !.seen = acc.seen \cup {ioc.fingerprint}]
Admit(acc, ioc) ==
  [acc EXCEPT !.unique = Append(acc.unique, ioc),
              !.new_fingerprints = acc.new_fingerprints \cup {ioc.fingerprint},
              !.seen = acc.seen \cup {ioc.fingerprint}]

\* deduplicate lines 94-109: the body of the loop for one record
DedupStep(acc, ioc) ==
  IF Falsy(ioc.fingerprint)
    THEN [acc EXCEPT !.unique = Append(acc.unique, ioc)]
    ELSE IF is_duplicate(ioc.fingerprint, acc.seen)
      THEN [acc EXCEPT !.duplicates = acc.duplicates + 1]
      ELSE Admit(acc, ioc)

RECURSIVE DedupLoop(_, _, _)
DedupLoop(iocs, k, acc) ==
  IF k > Len(iocs) THEN acc ELSE DedupLoop(iocs, k + 1, DedupStep(acc, iocs[k]))

\* the content of <cache_dir>/fingerprints.pkl: no file, a pickled set, or
\* bytes that pickle cannot load
NoCacheFile == [status |-> "missing", data |-> {}]
CacheFileOf(cache) == [status |-> "pickle", data |-> cache]
CorruptCacheFile == [status |-> "corrupt", data |-> {}]

\* what the file system does to one _save_cache: the write succeeds, open()
\* fails (the file stays as it was), or the dump fails after open(..., "wb")
\* has truncated the file (an unreadable file is left)
SaveOutcomes == {"ok", "open_fails", "dump_fails"}

\* _save_cache lines 70-78: a failure is only logged
SaveCache(cache, file, save) ==
  CASE save = "ok" -> CacheFileOf(cache)
    [] save = "open_fails" -> file
    [] save = "dump_fails" -> CorruptCacheFile

\* what the file system does to one _load_cache: the read succeeds, or open()
\* or read() fails (the file is unreadable)
LoadOutcomes == {"ok", "unreadable"}

\* _load_cache lines 60-64: pickle.load raises on an unreadable or corrupt file
LoadFails(file, load) ==
  file.status # "missing" /\ (load = "unreadable" \/ file.status = "corrupt")

\* _load_cache lines 65-68: "except Exception" catches the failure, so no
\* exception leaves _load_cache
LoadErrorEscapes(failed) == failed
LoadErrorCaught(failed) == FALSE

\* __init__ line 48 and _load_cache lines 58-68
_load_cache(file, load) ==
  [seen |-> IF file.status = "pickle" /\ ~LoadFails(file, load)
              THEN file.data ELSE {},
   load_failed |-> LoadFails(file, load),
   raised |-> LoadErrorCaught(LoadFails(file, load))]

\* deduplicate lines 112-113: the calls of _save_cache of one batch, after
\* the loop has ended
SavesPerItem(acc) == Cardinality(acc.new_fingerprints)
SaveCount(acc) == IF acc.new_fingerprints # {} THEN 1 ELSE 0

\* deduplicate lines 90-118, from the cache `cache` and the cache file `file`
deduplicate(iocs, cache, file, save) ==
  LET acc == DedupLoop(iocs, 1,
               [unique |-> <<>>, new_fingerprints |-> {}, duplicates |-> 0,
                seen |-> cache])
      saved == acc.new_fingerprints # {}
  IN  [unique |-> acc.unique,
       seen |-> acc.seen,
       file |-> IF saved THEN SaveCache(acc.seen, file, save) ELSE file,
       saves |-> SaveCount(acc)]

\* the threads that call deduplicate on the shared instance, and a thread
\* that has not called yet
Callers == {1, 2}
IdleCaller ==
  [pc |-> "idle", batch |-> <<>>, k |-> 1, unique |-> <<>>,
   new_fingerprints |-> {}, duplicates |-> 0]

\* the record of one call of deduplicate
DedupRecord(iocs, res, cache) ==
  [op |-> "deduplicate", batch |-> iocs, out |-> res.unique,
   seen_before |-> cache, saves |-> res.saves,
   repeat |-> dedupCall.op = "deduplicate" /\ dedupCall.batch = iocs,
   prev_out |-> IF dedupCall.op = "deduplicate" /\ dedupCall.batch = iocs
                  THEN dedupCall.out ELSE <<>>,
   load_failed |-> FALSE, raised |-> FALSE]

DedupInit ==
  /\ seen = {}
  /\ cacheFile = NoCacheFile
  /\ dedupCall = [op |-> "init", batch |-> <<>>, out |-> <<>>, seen_before |-> {},
                  saves |-> 0, repeat |-> FALSE, prev_out |-> <<>>,
                  load_failed |-> FALSE, raised |-> FALSE]
  /\ dedupThreads = [i \in Callers |-> IdleCaller]

\* a caller hands a batch to Deduplicator.deduplicate
Deduplicate ==
  \E iocs \in SeqsUpTo(Iocs, MaxBatch), save \in SaveOutcomes :
    LET res == deduplicate(iocs, seen, cacheFile, save) IN
      /\ seen' = res.seen
      /\ cacheFile' = res.file
      /\ dedupCall' = DedupRecord(iocs, res, seen)
      /\ UNCHANGED <<tasks, shutdown, loop, threads, finishedAt, stopCall, now>>
      /\ UNCHANGED <<dedupThreads, feedVars, execCall, pipeVars, httpVars, calcVars>>

\* add_fingerprint lines 139-141
AddFingerprint ==
  \E fingerprint \in Fingerprints, save \in SaveOutcomes :
    /\ seen' = seen \cup {fingerprint}
    /\ cacheFile' = IF is_duplicate(fingerprint, seen) THEN cacheFile
                    ELSE SaveCache(seen \cup {fingerprint}, cacheFile, save)
    /\ dedupCall' = [op |-> "add_fingerprint", batch |-> <<>>, out |-> <<>>,
                     seen_before |-> seen,
                     saves |-> IF is_duplicate(fingerprint, seen) THEN 0 ELSE 1,
                     repeat |-> FALSE, prev_out |-> <<>>,
                     load_failed |-> FALSE, raised |-> FALSE]
    /\ UNCHANGED <<tasks, shutdown, loop, threads, finishedAt, stopCall, now>>
    /\ UNCHANGED <<dedupThreads, feedVars, execCall, pipeVars, httpVars, calcVars>>

\* the process restarts: a new Deduplicator is constructed over the same
\* cache directory (__init__ lines 44-49)
Construct ==
  \E load \in LoadOutcomes :
    \E res \in {_load_cache(cacheFile, load)} :
      /\ seen' = res.seen
      /\ dedupCall' = [op |-> "construct", batch |-> <<>>, out |-> <<>>,
                       seen_before |-> seen, saves |-> 0,
                       repeat |-> FALSE, prev_out |-> <<>>,
                       load_failed |-> res.load_failed, raised |-> res.raised]
      /\ UNCHANGED <<tasks, shutdown, loop, threads, finishedAt, stopCall, now>>
      /\ UNCHANGED <<cacheFile, dedupThreads, feedVars, execCall, pipeVars, httpVars, calcVars>>

DedupNext ==
  \/ Deduplicate
  \/ AddFingerprint
  \/ Construct

\* Two feed executions share one Deduplicator (CTIPipeline.__init__ builds
\* one instance for all feeds) and call deduplicate from two threads.  The
\* method takes no lock, so the threads interleave between its statements:
\* the membership test of line 101 and the add of line 109 are separate
\* steps on the shared set.
RaceStart(i) ==
  /\ dedupThreads[i].pc = "idle"
  /\ \E iocs \in SeqsUpTo(Iocs, MaxBatch) \ {<<>>} :
       dedupThreads' = [dedupThreads EXCEPT ![i] =
         [pc |-> "for", batch |-> iocs, k |-> 1, unique |-> <<>>,
          new_fingerprints |-> {}, duplicates |-> 0]]
  /\ UNCHANGED <<seen, cacheFile, dedupCall>>
  /\ UNCHANGED <<tasks, shutdown, loop, threads, finishedAt, stopCall, now>>
  /\ UNCHANGED <<feedVars, execCall, pipeVars, httpVars, calcVars>>

\* deduplicate lines 94-104: the next record is looked up in the shared set
RaceCheck(i) ==
  LET t == dedupThreads[i] IN
    /\ t.pc = "for"
    /\ t.k <= Len(t.batch)
    /\ dedupThreads' = [dedupThreads EXCEPT ![i] =
         IF Falsy(t.batch[t.k].fingerprint)
           THEN [t EXCEPT !.unique = Append(t.unique, t.batch[t.k]), !.k = t.k + 1]
           ELSE IF is_duplicate(t.batch[t.k].fingerprint, seen)
             THEN [t EXCEPT !.duplicates = t.duplicates + 1, !.k = t.k + 1]
             ELSE [t EXCEPT !.pc = "new"]]
    /\ UNCHANGED <<seen, cacheFile, dedupCall>>
    /\ UNCHANGED <<tasks, shutdown, loop, threads, finishedAt, stopCall, now>>
    /\ UNCHANGED <<feedVars, execCall, pipeVars, httpVars, calcVars>>

\* deduplicate lines 107-109: the record found new is returned and recorded
RaceAdmit(i) ==
  LET t == dedupThreads[i] IN
    /\ t.pc = "new"
    /\ \E acc \in {Admit([unique |-> t.unique,
                           new_fingerprints |-> t.new_fingerprints,
                           duplicates |-> t.duplicates, seen |-> seen],
                          t.batch[t.k])} :
         /\ seen' = acc.seen
         /\ dedupThreads' = [dedupThreads EXCEPT ![i] =
              [t EXCEPT !.pc = "for", !.k = t.k + 1, !.unique = acc.unique,
                        !.new_fingerprints = acc.new_fingerprints]]
    /\ UNCHANGED <<cacheFile, dedupCall>>
    /\ UNCHANGED <<tasks, shutdown, loop, threads, finishedAt, stopCall, now>>
    /\ UNCHANGED <<feedVars, execCall, pipeVars, httpVars, calcVars>>

\* deduplicate lines 112-118: the cache is saved once and the call returns
RaceReturn(i) ==
  LET t == dedupThreads[i] IN
    /\ t.pc = "for"
    /\ t.k > Len(t.batch)
    /\ \E save \in SaveOutcomes :
         cacheFile' = IF t.new_fingerprints # {}
                        THEN SaveCache(seen, cacheFile, save) ELSE cacheFile
    /\ dedupThreads' = [dedupThreads EXCEPT ![i] = [t EXCEPT !.pc = "returned"]]
    /\ UNCHANGED <<seen, dedupCall>>
    /\ UNCHANGED <<tasks, shutdown, loop, threads, finishedAt, stopCall, now>>
    /\ UNCHANGED <<feedVars, execCall, pipeVars, httpVars, calcVars>>

RaceNext ==
  \/ \E i \in Callers : RaceStart(i)
  \/ \E i \in Callers : RaceCheck(i)
  \/ \E i \in Callers : RaceAdmit(i)
  \/ \E i \in Callers : RaceReturn(i)

(***************************************************************************)
(* Feeds, their payloads and their run state (BaseFeed)                    *)
(***************************************************************************)
\* the feeds of the driver: the dark-web monitor, CISA KEV, AlienVault OTX
Feeds == {"Ransomware_Live", "cisa_kev", "alienvault_otx"}

\* the capability flag: BaseFeed sets True, the OTX feed takes
\* settings.OTX_INCREMENTAL_ENABLED, which is False
supports_incremental(f) == f # "alienvault_otx"

\* an absent Optional timestamp
NoTimestamp == -1

\* raw entries of an indicator feed, as (ioc_type, ioc_value) candidates, and
\* the victim titles of a dark-web detection report
Candidate(ioc_type, ioc_value) == [ioc_type |-> ioc_type, ioc_value |-> ioc_value]
Victim(group, title) == [group |-> group, title |-> title]

\* a payload returned by fetch: its shape ("detections" key or "data" key),
\* the verdict feed.validate gives on it, and its entries
Payload(shape, valid, entries) == [shape |-> shape, valid |-> valid, entries |-> entries]
NoPayload == Payload("none", FALSE, <<>>)

\* BaseFeed.validate (abstract): the feed's verdict on a payload
validate(payload) == payload.valid

\* the payloads the feeds are made to return.  The dark-web monitor's
\* validate (monitor.py line 70) rejects exactly the reports with no
\* detection; the other feeds' validate can reject a payload that has entries
\* (a schema or source mismatch)
SamplePayloads(f) ==
  IF f = "Ransomware_Live"
    THEN {Payload("detections", FALSE, <<>>)}
         \cup {Payload("detections", TRUE, e) :
                 e \in {<<>>, <<Victim("Everest", "acme corp")>>,
                        <<Victim("Everest", "acme corp"),
                          Victim("LockBit_Mirror", "globex")>>}}
    ELSE {Payload("data", v, e) : v \in BOOLEAN,
            e \in {<<>>, <<Candidate("cve", "cve-2024-1234")>>,
                   <<Candidate("cve", "CVE-2024-1234"),
                     Candidate("domain", "evil.example")>>}}

\* feed_state.json: absent, readable with a last_run value, or unreadable
NoStateFile == [status |-> "absent", last_run |-> NoTimestamp]
StateFileOf(timestamp) == [status |-> "ok", last_run |-> timestamp]
CorruptStateFile == [status |-> "corrupt", last_run |-> NoTimestamp]

\* get_last_run_time lines 62-68: read the marker, None when the file is
\* absent or cannot be parsed
ReadStatsRow(f) == stats[f].last_success
ReadStateFile(f) ==
  IF stateFile[f].status = "ok" THEN stateFile[f].last_run ELSE NoTimestamp

\* get_last_run_time lines 57-68
get_last_run_time(f) ==
  IF ~supports_incremental(f) THEN NoTimestamp ELSE ReadStateFile(f)

\* save_state line 72: write_text succeeds, fails to open the file, or fails
\* after truncating it
StateOutcomes == {"ok", "open_fails", "write_fails"}
save_state(file, timestamp, outcome) ==
  CASE outcome = "ok" -> StateFileOf(timestamp)
    [] outcome = "open_fails" -> file
    [] outcome = "write_fails" -> CorruptStateFile

(***************************************************************************)
(* FeedDAO.update_stats                                                    *)
(***************************************************************************)
\* what the database does during one update_stats call
DbOutcomes == {"ok", "no_conn", "conn_raises", "cursor_raises", "exec_raises"}

NoStats ==
  [run_count |-> 0, success_count |-> 0, error_count |-> 0,
   total_iocs_collected |-> 0, last_run |-> NoTimestamp,
   last_success |-> NoTimestamp, last_error |-> None]

\* update_stats lines 84-106: the UPDATE that is committed
UpdatedRow(row, success, count, error, run_time) ==
  IF success
    THEN [row EXCEPT !.last_run = run_time, !.last_success = run_time,
                     !.run_count = @ + 1, !.success_count = @ + 1,
                     !.total_iocs_collected = @ + count, !.last_error = None]
    ELSE [row EXCEPT !.last_run = run_time, !.run_count = @ + 1,
                     !.last_error = error, !.error_count = @ + 1]

\* one call of update_stats: its arguments and what the database did
StatCall(success, count, error, db) ==
  [success |-> success, count |-> count, error |-> error, db |-> db]

\* update_stats lines 72-111.  get_connection (line 77) is outside the try:
\* when it raises, update_stats raises.  When conn.cursor() (line 83) raises,
\* the handler logs it and the finally clause closes the unbound `cursor`,
\* which raises UnboundLocalError.  A failing execute is logged and dropped.
update_stats(row, success, count, error, run_time, db) ==
  [row |-> IF db = "ok" THEN UpdatedRow(row, success, count, error, run_time) ELSE row,
   raised |-> db \in {"conn_raises", "cursor_raises"}]

(***************************************************************************)
(* FeedDAO.update_stats called from two threads                            *)
(***************************************************************************)
\* the number of update_stats calls of one run, and the feed they are for
MaxUpdates == 3
StatsFeed == "cisa_kev"

\* the arguments the callers pass (pipeline.py lines 69, 94, 112 and
\* Feed_manager.py lines 92-97): a success with a count, a failure with str(e)
StatArgs ==
  {[success |-> TRUE, count |-> c, error |-> None] : c \in 0..1}
  \cup {[success |-> FALSE, count |-> 0, error |-> m] :
          m \in {"fetch failed", "persist failed"}}

IdleUpdate ==
  [pc |-> "idle", args |-> [success |-> TRUE, count |-> 0, error |-> None],
   snapshot |-> NoStats, at |-> 0]

\* no update in progress: no thread holds the lock of the row, no update has
\* been committed
StatsIdle ==
  statsCall = [threads |-> [i \in Callers |-> IdleUpdate], lock |-> 0,
               staged |-> NoStats, last |-> "none", begun |-> 0]

\* lines 85-106: the UPDATE statement computes the new counters from the row
\* as it is when the statement runs (run_count = run_count + 1), not from a
\* value read earlier by the caller
RowAtBegin(i) == statsCall.threads[i].snapshot
RowAtExecute(i) == stats[StatsFeed]

\* lines 77-83: a call starts; without a usable connection or cursor it ends
\* (by a return or by an exception) with the row untouched
UpdateBegin(i) ==
  /\ statsCall.threads[i].pc = "idle"
  /\ statsCall.begun < MaxUpdates
  /\ \E a \in StatArgs, db \in DbOutcomes \ {"exec_raises"} :
       statsCall' =
         [statsCall EXCEPT
            !.begun = @ + 1,
            !.threads[i] = [pc |-> IF db = "ok" THEN "execute" ELSE "idle",
                            args |-> a, snapshot |-> stats[StatsFeed],
                            at |-> statsCall.begun + 1]]
  /\ UNCHANGED <<schedVars, dedupVars, feedVars, execCall, pipeVars, httpVars,
                 readCall, normCall, scoreCall, feedsTable, managerCall>>

\* lines 84-106: cursor.execute runs the UPDATE, which waits for the lock of
\* the row and holds it until the transaction ends; an execute that raises
\* is logged and the call ends
UpdateExecute(i) ==
  /\ statsCall.threads[i].pc = "execute"
  /\ statsCall.lock = 0
  /\ \E raises \in BOOLEAN :
       LET t == statsCall.threads[i] IN
         statsCall' =
           IF raises
             THEN [statsCall EXCEPT !.threads[i].pc = "idle"]
             ELSE [statsCall EXCEPT
                     !.lock = i,
                     !.staged = UpdatedRow(RowAtExecute(i), t.args.success,
                                           t.args.count, t.args.error, t.at),
                     !.threads[i].pc = "commit"]
  /\ UNCHANGED <<schedVars, dedupVars, feedVars, execCall, pipeVars, httpVars,
                 readCall, normCall, scoreCall, feedsTable, managerCall>>

\* lines 107-111: conn.commit() publishes the row; a commit that raises is
\* logged and conn.close() rolls the statement back
UpdateCommit(i) ==
  /\ statsCall.threads[i].pc = "commit"
  /\ \E committed \in BOOLEAN :
       /\ stats' = IF committed
                     THEN [stats EXCEPT ![StatsFeed] = statsCall.staged]
                     ELSE stats
       /\ statsCall' =
            [statsCall EXCEPT
               !.lock = 0,
               !.last = IF ~committed THEN @
                        ELSE IF statsCall.threads[i].args.success THEN "success"
                        ELSE "failure",
               !.threads[i].pc = "idle"]
  /\ UNCHANGED <<schedVars, dedupVars, stateFile, evidence, execCall, pipeVars,
                 httpVars, readCall, normCall, scoreCall, feedsTable, managerCall>>

StatsNext ==
  \/ \E i \in Callers : UpdateBegin(i)
  \/ \E i \in Callers : UpdateExecute(i)
  \/ \E i \in Callers : UpdateCommit(i)

(***************************************************************************)
(* RansomwareMonitorFeed.fetch: the change detection                       *)
(***************************************************************************)
\* execute_feed line 69: datetime.now().isoformat(), the text save_state
\* stores; the text get_last_run_time gives back ("None" for None)
isoformat(t) == "2024-01-01T00:00:0" \o ToString(t)
StateText(t) == IF t = NoTimestamp THEN "None" ELSE isoformat(t)

\* _generate_victim_hash line 118: sha256(title).hexdigest()[:16] of the
\* sample titles, and these signatures in ascending order
TitleSignature(title) ==
  CASE title = "acme corp" -> "ea6f9c07a2f95c78"
    [] title = "globex" -> "5bc1a08d28e40fe7"
    [] OTHER -> "ffffffffffffffff"
SignatureOrder == <<"5bc1a08d28e40fe7", "ea6f9c07a2f95c78", "ffffffffffffffff">>

RECURSIVE Repeat(_, _)
Repeat(text, n) == IF n = 0 THEN "" ELSE text \o Repeat(text, n - 1)

\* line 118: the sorted list of the signatures, one per victim (a title
\* listed twice is signed twice), as json.dumps writes it
RECURSIVE SortedSignatures(_, _)
SortedSignatures(victims, k) ==
  IF k > Len(SignatureOrder) THEN ""
  ELSE Repeat(SignatureOrder[k] \o ",",
              Cardinality({i \in 1..Len(victims) :
                             TitleSignature(victims[i].title) = SignatureOrder[k]}))
       \o SortedSignatures(victims, k + 1)

\* _generate_victim_hash lines 116-119: the digest of the sorted signatures
_generate_victim_hash(victims) == "sha256:[" \o SortedSignatures(victims, 1) \o "]"

\* fetch line 40: the sources of a report, and line 49: the victims of one
SourcesOf(payload) == {payload.entries[i].group : i \in 1..Len(payload.entries)}
VictimsOf(payload, source_id) ==
  SelectSeq(payload.entries, LAMBDA v : v.group = source_id)

\* fetch line 53: the value the comparison reads back from the run state
LastHashRead(f) == StateText(get_last_run_time(f))

\* fetch lines 50-60: the sources whose detection says changed
ChangedSources(f, payload) ==
  IF payload.shape # "detections" THEN {}
  ELSE {s \in SourcesOf(payload) :
          _generate_victim_hash(VictimsOf(payload, s)) # LastHashRead(f)}

(***************************************************************************)
(* FeedManager.execute_feed                                                *)
(***************************************************************************)
\* execute_feed lines 34-39: the last_run handed to fetch
LastRunIgnoringCapability(f) == ReadStateFile(f)
LastRunFor(f) ==
  IF supports_incremental(f) THEN get_last_run_time(f) ELSE NoTimestamp

\* execute_feed line 47: validation lets the payload through
PassesUnchecked(payload) == TRUE
PassesValidation(payload) == validate(payload)

\* update_feed_status lines 90-100: the exception that leaves the call
\* (none: whatever update_stats raises is caught and logged)
StatusErrorLeaks(raised) == raised
StatusError(raised) == FALSE

\* execute_feed lines 57-62: the item count of a payload
TotalItems(payload) == Len(payload.entries)

\* the step at which an execution is made to fail, besides validation
ExecFailures == {"none", "fetch", "evidence", "summary", "state_open", "state_write"}

\* str(e) of the exception a failing step raises
ErrorMessage(step) ==
  CASE step = "fetch" -> "fetch failed"
    [] step = "validation" -> "failed validation (no data returned)"
    [] step = "parse" -> "parse failed"
    [] step = "score" -> "scoring failed"
    [] step = "persist" -> "persist failed"
    [] step = "evidence" -> "evidence write failed"
    [] step = "summary" -> "summary failed"
    [] step \in {"state_open", "state_write"} -> "state write failed"
    [] step = "stats" -> "statistics store failed"
    [] OTHER -> ""

\* execute_feed lines 27-75 on feed f, from row `row`, in environment e:
\* the step that fails (none when it returns), and the effects on the
\* evidence store, the statistics row and the state file
execute_feed(f, e, row, file, run_time) ==
  LET last_run == LastRunFor(f)
      failed ==
        IF e.fail = "fetch" THEN "fetch"
        ELSE IF ~PassesValidation(e.payload) THEN "validation"
        ELSE e.fail
      wrote_evidence == failed \in {"none", "summary", "state_open", "state_write"}
      \* line 65: the success update, reached when nothing failed before it
      counted == failed \in {"none", "state_open", "state_write"}
      ok_upd == update_stats(row, TRUE, TotalItems(e.payload), None, run_time, e.db)
      row1 == IF counted THEN ok_upd.row ELSE row
      \* line 74: the failure update of the except clause
      err_upd == update_stats(row1, FALSE, 0, ErrorMessage(failed), run_time,
                              e.db)
      row2 == IF failed = "none" THEN row1 ELSE err_upd.row
      leaked == \/ counted /\ StatusError(ok_upd.raised)
                \/ failed # "none" /\ StatusError(err_upd.raised)
  IN  [fetch_arg |-> last_run,
       fetched |-> e.fail # "fetch",
       validated |-> IF e.fail = "fetch" THEN "not_called"
                     ELSE IF validate(e.payload) THEN "true" ELSE "false",
       changed |-> ChangedSources(f, e.payload),
       failed |-> failed,
       outcome |-> IF failed = "none" /\ ~leaked THEN "returned" ELSE "raised",
       exc |-> IF leaked THEN ErrorMessage("stats") ELSE ErrorMessage(failed),
       evidence |-> IF wrote_evidence THEN <<e.payload>> ELSE <<>>,
       stat_calls |->
         (IF counted THEN <<StatCall(TRUE, TotalItems(e.payload), None, e.db)>>
                     ELSE <<>>)
         \o (IF failed # "none"
               THEN <<StatCall(FALSE, 0, ErrorMessage(failed),
                               e.db)>>
               ELSE <<>>),
       row |-> row2,
       file |-> CASE failed = "none" -> save_state(file, run_time, "ok")
                  [] failed = "state_open" -> save_state(file, run_time, "open_fails")
                  [] failed = "state_write" -> save_state(file, run_time, "write_fails")
                  [] OTHER -> file]

\* the environments of one execute_feed call: the step that raises (a fetch
\* that raises returns no payload, an invalid payload stops the run by
\* itself), the payload, and what the database does during the call
ExecEnvs(f) ==
  {[fail |-> "fetch", payload |-> NoPayload, db |-> db] : db \in DbOutcomes}
  \cup {[fail |-> "none", payload |-> p, db |-> db] :
           p \in {q \in SamplePayloads(f) : ~validate(q)}, db \in DbOutcomes}
  \cup {[fail |-> x, payload |-> p, db |-> db] :
           x \in ExecFailures \ {"fetch"},
           p \in {q \in SamplePayloads(f) : validate(q)}, db \in DbOutcomes}

FeedInit ==
  /\ stateFile = [f \in Feeds |-> NoStateFile]
  /\ evidence = [f \in Feeds |-> <<>>]
  /\ stats = [f \in Feeds |-> NoStats]
  /\ execCall = [op |-> "init", feed |-> "cisa_kev", at |-> 0,
                 fetch_arg |-> NoTimestamp, fetched |-> FALSE,
                 validated |-> "not_called", changed |-> {}, failed |-> "none",
                 outcome |-> "returned", exc |-> "", stat_calls |-> <<>>]

\* a caller runs FeedManager.execute_feed on feed f
ExecuteFeed ==
  /\ now < MaxCalls
  /\ \E f \in Feeds :
       \E e \in ExecEnvs(f) :
         \E res \in {execute_feed(f, e, stats[f], stateFile[f], now + 1)} :
           /\ now' = now + 1
           /\ stateFile' = [stateFile EXCEPT ![f] = res.file]
           /\ evidence' = [evidence EXCEPT ![f] = @ \o res.evidence]
           /\ stats' = [stats EXCEPT ![f] = res.row]
           /\ execCall' = [op |-> "execute_feed", feed |-> f, at |-> now + 1,
                           fetch_arg |-> res.fetch_arg, fetched |-> res.fetched,
                           validated |-> res.validated,
                           changed |-> res.changed, failed |-> res.failed,
                           outcome |-> res.outcome, exc |-> res.exc,
                           stat_calls |-> res.stat_calls]
           /\ UNCHANGED <<tasks, shutdown, loop, threads, finishedAt, stopCall,
                         dedupVars, pipeVars, httpVars, calcVars>>

ExecNext ==
  \/ ExecuteFeed

(***************************************************************************)
(* FeedManager: the cache of enabled feeds                                 *)
(***************************************************************************)
\* FeedDAO.upsert_feed lines 24-51.  get_connection is called outside the
\* try, so its exception leaves the call; a cursor() that raises is caught,
\* and then the finally clause closes a cursor that was never bound
upsert_feed(table, name, enabled, db) ==
  [table |-> IF db # "ok" THEN table
             ELSE IF enabled THEN table \cup {name} ELSE table \ {name},
   stored |-> db = "ok",
   raised |-> db \in {"conn_raises", "cursor_raises"}]

\* FeedDAO.get_active_feeds lines 53-70: no connection and a failing query
\* both answer the empty list
get_active_feeds(table, db) ==
  [rows |-> IF db = "ok" THEN table ELSE {},
   raised |-> db \in {"conn_raises", "cursor_raises"}]

\* _refresh_cache lines 20-25
_refresh_cache(cache, table, db) ==
  LET enabled_feeds == get_active_feeds(table, db) IN
    IF enabled_feeds.raised THEN cache ELSE enabled_feeds.rows

\* register_feed lines 77-88: the refresh follows an upsert that did not
\* raise, whatever it returned
register_feed(cache, table, name, enabled, upsert_db, refresh_db) ==
  LET up == upsert_feed(table, name, enabled, upsert_db) IN
    [table |-> up.table,
     cache |-> IF up.raised THEN cache
               ELSE _refresh_cache(cache, up.table, refresh_db),
     stored |-> up.stored,
     refresh |-> IF up.raised THEN "not_called"
                 ELSE IF refresh_db = "ok" THEN "ok" ELSE "failed"]

ManagerInit ==
  /\ feedsTable = enabledCache
  /\ managerCall = [op |-> "init", name |-> "cisa_kev", enabled |-> TRUE,
                    stored |-> FALSE, refresh |-> "ok", cache_before |-> enabledCache]

\* a new FeedManager is constructed over the feeds table (lines 15-18)
NewManager ==
  /\ \E db \in DbOutcomes :
       /\ enabledCache' = _refresh_cache({}, feedsTable, db)
       /\ managerCall' = [op |-> "__init__", name |-> "cisa_kev", enabled |-> TRUE,
                          stored |-> FALSE,
                          refresh |-> IF db = "ok" THEN "ok" ELSE "failed",
                          cache_before |-> {}]
  /\ UNCHANGED feedsTable
  /\ UNCHANGED <<now, tasks, shutdown, loop, threads, finishedAt, stopCall>>
  /\ UNCHANGED <<dedupVars, feedVars, execCall, httpVars, readCall, normCall,
                 scoreCall, statsCall>>
  /\ UNCHANGED <<victimSink, indicatorSink, pipeCall, runCall>>

\* a caller registers feed `name` with the flag `enabled`
RegisterFeed ==
  /\ \E name \in Feeds, enabled \in BOOLEAN, upsert_db \in DbOutcomes,
        refresh_db \in DbOutcomes :
       \E res \in {register_feed(enabledCache, feedsTable, name, enabled,
                                 upsert_db, refresh_db)} :
         /\ feedsTable' = res.table
         /\ enabledCache' = res.cache
         /\ managerCall' = [op |-> "register_feed", name |-> name,
                            enabled |-> enabled, stored |-> res.stored,
                            refresh |-> res.refresh,
                            cache_before |-> enabledCache]
  /\ UNCHANGED <<now, tasks, shutdown, loop, threads, finishedAt, stopCall>>
  /\ UNCHANGED <<dedupVars, feedVars, execCall, httpVars, readCall, normCall,
                 scoreCall, statsCall>>
  /\ UNCHANGED <<victimSink, indicatorSink, pipeCall, runCall>>

ManagerNext ==
  \/ NewManager
  \/ RegisterFeed

(***************************************************************************)
(* IOCNormalizer                                                           *)
(***************************************************************************)
\* hashlib.sha256(...).hexdigest(): a collision-free digest of its input
Sha256(data) == "sha256(" \o data \o ")"

\* Python's None where a record is expected
NoneIoc == [fingerprint |-> None, ioc_type |-> None, ioc_value |-> None,
            victim_hash |-> None]

\* str.upper and str.lower on the sample values
upper(v) == IF v = "cve-2024-1234" THEN "CVE-2024-1234" ELSE v
lower(v) ==
  CASE v = "CVE-2024-1234" -> "cve-2024-1234"
    [] v = "TTP" -> "ttp"
    [] v = "T1059" -> "t1059"
    [] v = "Ransomware_Live" -> "ransomware_live"
    [] OTHER -> v

\* _normalize_cve lines 203-208: upper-case, then match CVE_PATTERN
_normalize_cve(cve) ==
  IF upper(cve) \in {"CVE-2024-1234"} THEN upper(cve) ELSE None

\* _normalize_domain lines 132-150: lower-case, then match DOMAIN_PATTERN
_normalize_domain(domain) ==
  IF lower(domain) \in {"evil.example"} THEN lower(domain) ELSE None

\* _generate_fingerprint lines 217-229
_generate_fingerprint(ioc_type, ioc_value) == Sha256(ioc_type \o ":" \o ioc_value)

\* normalize lines 48-98
normalize(ioc) ==
  LET ioc_type == lower(ioc.ioc_type)
      normalized_value ==
        CASE ioc_type = "cve" -> _normalize_cve(ioc.ioc_value)
          [] ioc_type = "domain" -> _normalize_domain(ioc.ioc_value)
          [] OTHER -> lower(ioc.ioc_value)
  IN  IF ioc.ioc_value = "" \/ normalized_value = None
        THEN NoneIoc
        ELSE [fingerprint |-> _generate_fingerprint(ioc_type, normalized_value),
              ioc_type |-> ioc_type, ioc_value |-> normalized_value,
              victim_hash |-> None]

\* normalize_batch lines 100-117
normalize_batch(iocs) ==
  SelectSeq([i \in 1..Len(iocs) |-> normalize(iocs[i])], LAMBDA n : n # NoneIoc)

\* the indicators handed to normalize side by side: the known types cve and
\* domain, and type strings outside the known set, which normalize accepts
IocTypes == {"cve", "domain", "ttp", "TTP", "ttp:t1059"}
IocValues == {"CVE-2024-1234", "cve-2024-1234", "evil.example", "t1059",
              "T1059", "t1059:001", "001", ""}
RawIocs == [ioc_type : IocTypes, ioc_value : IocValues]

NormInit(a, b) ==
  normCall = [op |-> "input", a |-> a, b |-> b, na |-> NoneIoc, nb |-> NoneIoc]

\* normalize is called on two indicators
NormalizePair ==
  /\ normCall.op = "input"
  /\ normCall' = [normCall EXCEPT !.op = "normalize",
                                  !.na = normalize(normCall.a),
                                  !.nb = normalize(normCall.b)]
  /\ UNCHANGED <<now, tasks, shutdown, loop, threads, finishedAt, stopCall>>
  /\ UNCHANGED <<dedupVars, feedVars, execCall, pipeVars, httpVars, readCall,
                 scoreCall, feedsTable, managerCall, statsCall>>

NormNext == NormalizePair

(***************************************************************************)
(* CTIPipeline                                                             *)
(***************************************************************************)
\* process_feed line 62: "ransomware" in feed_name.lower()
IsRansomwareFeed(f) == f \in {"Ransomware_Live"}

\* _handle_ransomware_flow lines 76-85: the flat victim list.  The dicts
\* carry group_name, victim_name, victim_hash, discovery_date and no
\* "fingerprint" key, so ioc.get("fingerprint") is None
all_victims(data) ==
  IF data.shape = "detections"
    THEN [i \in 1..Len(data.entries) |->
            [fingerprint |-> None, ioc_type |-> None,
             ioc_value |-> data.entries[i].title,
             victim_hash |-> Sha256(data.entries[i].title)]]
    ELSE <<>>

\* parser.parse (line 101): the raw indicator candidates of a payload
parse(raw_data) == raw_data.entries

\* the step at which a pipeline execution is made to fail
PipeFailures == {"none", "fetch", "parse", "score", "persist", "evidence"}

\* the steps of the two flows in the order of their statements: lines 59,
\* 88-94 (the Victim sink is called for a non-empty list only) and lines 59,
\* 101-112
FlowSteps(ransom, clean) ==
  IF ransom
    THEN <<"fetch", "deduplicate">>
         \o (IF clean # <<>> THEN <<"persist">> ELSE <<>>)
         \o <<"evidence", "record_success">>
    ELSE <<"fetch", "parse", "normalize", "deduplicate", "score", "persist",
           "evidence", "record_success">>

\* the steps that were started when step `failed` raised
StartedSteps(flow, failed) ==
  IF \E i \in 1..Len(flow) : flow[i] = failed
    THEN SubSeq(flow, 1, CHOOSE i \in 1..Len(flow) : flow[i] = failed)
    ELSE flow

\* lines 94, 112: the count of the success update
CountBeforeDedup(items, clean) == Len(items)
SuccessCount(items, clean) == Len(clean)

\* the stores a feed execution works on
World ==
  [seen |-> seen, cacheFile |-> cacheFile, stats |-> stats, evidence |-> evidence,
   victimSink |-> victimSink, indicatorSink |-> indicatorSink]

\* the key under which a sink stores a record
SinkKey(f, rec) == IF IsRansomwareFeed(f) THEN rec.victim_hash ELSE rec.fingerprint
SinkKeys(f, recs) == [i \in 1..Len(recs) |-> SinkKey(f, recs[i])]

\* process_feed lines 48-70 with the flow it routes to (lines 72-96 or
\* 98-114), on feed f in environment e from the stores w at time t: the
\* stores afterwards and the record of the call
process_feed(f, e, w, t) ==
  LET ransom == IsRansomwareFeed(f)
      fetched == e.fail # "fetch"
      parsed == fetched /\ (ransom \/ e.fail # "parse")
      items == IF ransom THEN all_victims(e.payload)
                         ELSE normalize_batch(parse(e.payload))
      d == deduplicate(items, w.seen, w.cacheFile, e.save)
      clean == d.unique
      \* line 89: the Victim sink is called for a non-empty list only;
      \* line 108: the Indicator sink is always called
      scored == parsed /\ (ransom \/ e.fail # "score")
      sink_called == scored /\ (~ransom \/ clean # <<>>)
      persisted == sink_called /\ e.fail # "persist"
      at_evidence == scored /\ (sink_called => persisted)
      wrote == at_evidence /\ e.fail # "evidence"
      \* lines 94, 112: the success update, outside any guard of its own
      ok_upd == update_stats(w.stats[f], TRUE, SuccessCount(items, clean), None,
                             t, e.db)
      failed == IF ~fetched THEN "fetch"
                ELSE IF ~parsed THEN "parse"
                ELSE IF ~scored THEN "score"
                ELSE IF ~at_evidence THEN "persist"
                ELSE IF ~wrote THEN "evidence"
                ELSE IF ok_upd.raised THEN "stats"
                ELSE "none"
      row1 == IF wrote THEN ok_upd.row ELSE w.stats[f]
      \* line 69: the failure update of the except clause, unguarded
      err_upd == update_stats(row1, FALSE, 0, ErrorMessage(failed), t, e.db)
      raised == failed # "none" /\ err_upd.raised
      keys == SinkKeys(f, clean)
  IN  [world |->
         [seen |-> IF parsed THEN d.seen ELSE w.seen,
          cacheFile |-> IF parsed THEN d.file ELSE w.cacheFile,
          stats |-> [w.stats EXCEPT ![f] = IF failed = "none" THEN row1 ELSE err_upd.row],
          evidence |-> [w.evidence EXCEPT ![f] = IF wrote THEN @ \o <<e.payload>> ELSE @],
          victimSink |-> IF persisted /\ ransom THEN w.victimSink \o keys
                         ELSE w.victimSink,
          indicatorSink |-> IF persisted /\ ~ransom THEN w.indicatorSink \o keys
                            ELSE w.indicatorSink],
       call |->
         [op |-> "process_feed", feed |-> f, at |-> t,
          fetched |-> fetched,
          valid |-> fetched /\ validate(e.payload),
          validated |-> "not_called",
          failed |-> failed,
          admitted |-> IF parsed THEN keys ELSE <<>>,
          handed |-> IF sink_called THEN keys ELSE <<>>,
          persisted |-> persisted,
          wrote_evidence |-> wrote,
          steps |-> StartedSteps(FlowSteps(ransom, clean), failed),
          stat_calls |->
            (IF wrote
               THEN <<StatCall(TRUE, SuccessCount(items, clean), None, e.db)>>
               ELSE <<>>)
            \o (IF failed # "none"
                  THEN <<StatCall(FALSE, 0, ErrorMessage(failed), e.db)>>
                  ELSE <<>>),
          outcome |-> IF raised THEN "raised" ELSE "returned",
          exc |-> IF raised THEN ErrorMessage("stats") ELSE "",
          result |-> [success |-> ~raised /\ failed = "none",
                      count |-> IF failed = "none" THEN Len(clean) ELSE 0,
                      error |-> IF failed = "none" \/ raised THEN ""
                                ELSE ErrorMessage(failed)]]]

\* the environments of one process_feed call: the step that raises, the
\* payload fetched and what the database does; the cache directory is
\* writable
PipeEnvs(f) ==
  {[fail |-> "fetch", payload |-> NoPayload, db |-> db, save |-> "ok"] :
     db \in DbOutcomes}
  \cup {[fail |-> x, payload |-> p, db |-> db, save |-> "ok"] :
          x \in PipeFailures \ {"fetch"}, p \in SamplePayloads(f), db \in DbOutcomes}

\* the list the driver hands to run_all_feeds (cti_pipeline.py lines 38-47)
FeedOrder == <<"Ransomware_Live", "cisa_kev", "alienvault_otx">>

\* is_feed_enabled lines 102-103
is_feed_enabled(f) == f \in enabledCache

\* run_all_feeds lines 123-128: the loop from position k on.  A process_feed
\* that raises ends the loop and the call
RECURSIVE RunLoop(_, _, _, _)
RunLoop(k, envs, t, acc) ==
  IF k > Len(FeedOrder) \/ acc.outcome = "raised" THEN acc
  ELSE IF ~is_feed_enabled(FeedOrder[k]) THEN RunLoop(k + 1, envs, t, acc)
  ELSE CHOOSE next \in
         {RunLoop(k + 1, envs, t,
                  [world |-> r.world, calls |-> Append(acc.calls, r.call),
                   outcome |-> r.call.outcome]) :
            r \in {process_feed(FeedOrder[k], envs[FeedOrder[k]], acc.world, t)}} :
         TRUE

\* run_all_feeds lines 121-133
run_all_feeds(envs, w, t) ==
  LET done == RunLoop(1, envs, t, [world |-> w, calls |-> <<>>, outcome |-> "returned"])
  IN  [world |-> done.world,
       call |-> [op |-> "run_all_feeds", at |-> t, calls |-> done.calls,
                 outcome |-> done.outcome,
                 results |-> IF done.outcome = "raised" THEN <<>>
                             ELSE [i \in 1..Len(done.calls) |-> done.calls[i].result]]]

\* the environments of one run: per feed a fetch that raises, or a payload
\* of one entry with or without a failing sink; one database behaviour
RunChoices(f, db) ==
  {e \in PipeEnvs(f) :
     /\ e.db = db
     /\ e.fail \in {"none", "fetch", "persist"}
     /\ e.fail = "fetch" \/ Len(e.payload.entries) = 1}
RunEnvs ==
  UNION {{[f \in Feeds |-> CASE f = "Ransomware_Live" -> a
                             [] f = "cisa_kev" -> b
                             [] OTHER -> c] :
            a \in RunChoices("Ransomware_Live", db),
            b \in RunChoices("cisa_kev", db),
            c \in RunChoices("alienvault_otx", db)} :
         db \in {"ok", "conn_raises"}}

NoCall ==
  [op |-> "init", feed |-> "cisa_kev", at |-> 0, fetched |-> FALSE, valid |-> FALSE,
   validated |-> "not_called", failed |-> "none", admitted |-> <<>>,
   handed |-> <<>>, persisted |-> FALSE, wrote_evidence |-> FALSE,
   steps |-> <<>>, stat_calls |-> <<>>, outcome |-> "returned", exc |-> "",
   result |-> [success |-> FALSE, count |-> 0, error |-> ""]]

\* FeedManager.__init__ loads the enabled feeds from the feeds table
PipeInit(enabled) ==
  /\ enabledCache = enabled
  /\ victimSink = <<>>
  /\ indicatorSink = <<>>
  /\ pipeCall = NoCall
  /\ runCall = [op |-> "init", at |-> 0, calls |-> <<>>, outcome |-> "returned",
                results |-> <<>>]

Commit(w) ==
  /\ seen' = w.seen
  /\ cacheFile' = w.cacheFile
  /\ stats' = w.stats
  /\ evidence' = w.evidence
  /\ victimSink' = w.victimSink
  /\ indicatorSink' = w.indicatorSink

\* a caller runs CTIPipeline.process_feed on feed f
ProcessFeed ==
  /\ now < MaxCalls
  /\ \E f \in Feeds :
       \E e \in PipeEnvs(f) :
         \E r \in {process_feed(f, e, World, now + 1)} :
           /\ now' = now + 1
           /\ Commit(r.world)
           /\ pipeCall' = r.call
           /\ UNCHANGED <<tasks, shutdown, loop, threads, finishedAt, stopCall>>
           /\ UNCHANGED <<dedupCall, dedupThreads, stateFile, execCall,
                          enabledCache, runCall, httpVars, calcVars>>

\* the driver runs CTIPipeline.run_all_feeds on its feed list
RunAllFeeds ==
  /\ now < MaxCalls
  /\ \E envs \in RunEnvs :
       \E r \in {run_all_feeds(envs, World, now + 1)} :
         /\ now' = now + 1
         /\ Commit(r.world)
         /\ runCall' = r.call
         /\ UNCHANGED <<tasks, shutdown, loop, threads, finishedAt, stopCall>>
         /\ UNCHANGED <<dedupCall, dedupThreads, stateFile, execCall,
                        enabledCache, pipeCall, httpVars, calcVars>>

PipeNext ==
  \/ ProcessFeed
  \/ RunAllFeeds

(***************************************************************************)
(* SecureHTTPClient                                                        *)
(***************************************************************************)
\* A URL is the sequence of its characters.  The sample URLs are put
\* together from a scheme, a host and an optional port, path and query; two
\* have a trailing blank and two have no scheme.
SchemeHttp == <<"h", "t", "t", "p", ":", "/", "/">>
HostOnion == <<"a", "b", ".", "o", "n", "i", "o", "n">>
HostOnionUpper == <<"a", "b", ".", "O", "N", "I", "O", "N">>
HostClear == <<"a", "b", ".", "c", "o", "m">>
HostRansomwareLive == <<"r", "a", "n", "s", "o", "m", "w", "a", "r", "e", ".", "l", "i", "v", "e">>
Urls ==
  {SchemeHttp \o host \o port \o path \o query :
     host \in {HostOnion, HostOnionUpper, HostClear, HostRansomwareLive},
     port \in {<<>>, <<":", "8", "0">>},
     path \in {<<>>, <<"/", "p">>},
     query \in {<<>>, <<"?", "q">>}}
  \cup {SchemeHttp \o host \o <<" ">> : host \in {HostOnion, HostOnionUpper}}
  \cup {host \o <<"/", "p">> : host \in {HostOnion, HostClear}}

\* str.lower, character by character (the upper-case letters of the samples)
LowerChar(c) ==
  CASE c = "O" -> "o" [] c = "N" -> "n" [] c = "I" -> "i" [] OTHER -> c
LowerCased(str) == [k \in 1..Len(str) |-> LowerChar(str[k])]

\* str.strip: leading and trailing whitespace removed
Stripped(str) ==
  LET ks == {k \in 1..Len(str) : str[k] # " "} IN
    IF ks = {} THEN <<>>
    ELSE SubSeq(str, CHOOSE k \in ks : \A j \in ks : k <= j,
                     CHOOSE k \in ks : \A j \in ks : k >= j)

\* str.endswith
EndsWith(str, suffix) ==
  /\ Len(str) >= Len(suffix)
  /\ SubSeq(str, Len(str) - Len(suffix) + 1, Len(str)) = suffix

\* str.find, 1-based, 0 when the substring does not occur; "sub in str"
IndexOf(str, sub) ==
  LET ks == {k \in 1..(Len(str) - Len(sub) + 1) :
               SubSeq(str, k, k + Len(sub) - 1) = sub}
  IN  IF ks = {} THEN 0 ELSE CHOOSE k \in ks : \A j \in ks : k <= j
Contains(str, sub) == IndexOf(str, sub) # 0

\* the part of str before the first character of the set stops
Before(str, stops) ==
  LET ks == {k \in 1..Len(str) : str[k] \in stops} IN
    IF ks = {} THEN str
    ELSE SubSeq(str, 1, (CHOOSE k \in ks : \A j \in ks : k <= j) - 1)

\* urlparse(url).netloc: what follows "//" up to the next "/", "?" or "#";
\* empty when the URL has no "//"
Netloc(url) ==
  LET k == IndexOf(url, <<"/", "/">>) IN
    IF k = 0 THEN <<>>
    ELSE Before(SubSeq(url, k + 2, Len(url)), {"/", "?", "#"})

\* the host a URL names: the authority (where a scheme-less URL starts with
\* it) without the port, in lower case since host names are case-insensitive
Hostname(url) ==
  LET k == IndexOf(url, <<"/", "/">>)
      rest == IF k = 0 THEN Stripped(url)
              ELSE SubSeq(Stripped(url), k + 2, Len(Stripped(url)))
  IN  LowerCased(Before(rest, {"/", "?", "#", ":"}))
DotOnion == <<".", "o", "n", "i", "o", "n">>
IsOnionHost(url) == EndsWith(Hostname(url), DotOnion)

\* fetch line 90
is_onion(url) ==
  \/ EndsWith(LowerCased(Stripped(url)), DotOnion)
  \/ Contains(url, DotOnion \o <<"/">>)

\* fetch lines 93-98: the transport the request is sent through
Route(url, bypass_cloudflare) ==
  IF (bypass_cloudflare \/ Contains(url, HostRansomwareLive)) /\ ~is_onion(url)
    THEN "cloudflare_scraper"
    ELSE "standard_session"

\* time in units of half a second: rate_limit_delay = 2.0 s, and the values
\* random.uniform(0.5, 2.0) and the pauses between two calls are sampled
RateLimitDelay == 4
Jitters == {1, 4}
Pauses == {0, 4}

\* _enforce_rate_limit lines 65-75, from the clock value t: the time slept
\* and the table of last request times afterwards
_enforce_rate_limit(url, last, t, jitter) ==
  LET domain == Netloc(url)
      wait == IF domain \in DOMAIN last /\ t - last[domain] < RateLimitDelay
                THEN (RateLimitDelay - (t - last[domain])) + jitter
                ELSE 0
  IN  IF domain = <<>>
        THEN [slept |-> 0, last |-> last]
        ELSE [slept |-> wait,
              last |-> [d \in DOMAIN last \cup {domain} |->
                          IF d = domain THEN t + wait ELSE last[d]]]

\* __init__ lines 27, 51-58: the retry strategy, mounted on the standard
\* session only; the scraper keeps the adapter it was created with, which
\* retries nothing
MaxRetries == 5
StatusForcelist == {429, 500, 502, 503, 504}
Retries(route) == IF route = "standard_session" THEN MaxRetries ELSE 0

\* what the server does with the attempts of one request: the first `fails`
\* attempts end in `failure` (a status of the forcelist, or TransportError
\* for a connection that fails), the later ones in the status `final`
TransportError == 0
Servers ==
  {[fails |-> 0, failure |-> 503, final |-> final] : final \in {200, 404}}
  \cup [fails : 1..(MaxRetries + 1), failure : {503, TransportError},
        final : {200, 404}]
AttemptResult(server, j) == IF j <= server.fails THEN server.failure ELSE server.final
Retryable(result) == result = TransportError \/ result \in StatusForcelist

\* fetch lines 93-103: session.get makes attempts until one is not to be
\* retried or the retries are used up; a transport error or a used-up retry
\* budget raises, and raise_for_status raises on a 4xx or 5xx response
Send(route, server) ==
  LET js == {j \in 1..(Retries(route) + 1) : ~Retryable(AttemptResult(server, j))}
      attempts == IF js = {} THEN Retries(route) + 1
                  ELSE CHOOSE j \in js : \A k \in js : j <= k
      result == AttemptResult(server, attempts)
  IN  [attempts |-> attempts,
       result |-> result,
       outcome |-> IF result = TransportError \/ result >= 400
                     THEN "raised" ELSE "returned"]

\* the calls of the model: every sample URL with a server that answers the
\* first attempt for good, and two URLs with every server
PlainServers == {server \in Servers : server.fails = 0}
FetchEnvs ==
  [url : Urls, bypass_cloudflare : BOOLEAN, pause : Pauses, jitter : Jitters,
   server : PlainServers]
  \cup [url : {SchemeHttp \o HostClear, SchemeHttp \o HostOnion},
        bypass_cloudflare : BOOLEAN, pause : {0}, jitter : {1},
        server : Servers]

\* fetch lines 77-108
fetch(url, bypass_cloudflare, proxies, last, t, jitter, server) ==
  LET limit == _enforce_rate_limit(url, last, t, jitter)
      sent == Send(Route(url, bypass_cloudflare), server)
  IN
    [last |-> limit.last,
     clock |-> t + limit.slept,
     call |-> [op |-> "fetch", url |-> url,
               bypass_cloudflare |-> bypass_cloudflare,
               proxies |-> proxies,
               route |-> Route(url, bypass_cloudflare),
               slept |-> limit.slept,
               sent_at |-> t + limit.slept,
               server |-> server,
               attempts |-> sent.attempts,
               outcome |-> sent.outcome,
               n |-> httpCall.n + 1]]

\* TorHTTPClient.fetch (tor_client.py lines 28-40): the proxies are put into
\* the keyword arguments, bypass_cloudflare is forced to False whatever the
\* caller passed, and the call goes on in SecureHTTPClient.fetch
TorProxies == "socks5h://127.0.0.1:9050"
tor_fetch(url, bypass_cloudflare, last, t, jitter, server) ==
  fetch(url, FALSE, TorProxies, last, t, jitter, server)

\* the classes of the client object
Clients == {"SecureHTTPClient", "TorHTTPClient"}

\* SecureHTTPClient.__init__ lines 31-33 (TorHTTPClient.__init__ calls it
\* with its proxy_url): no request made yet
HttpInit(client) ==
  /\ httpClient = client
  /\ httpClock = 0
  /\ lastRequestTime = <<>>
  /\ httpCall = [op |-> "init", url |-> <<>>, bypass_cloudflare |-> FALSE,
                 proxies |-> None,
                 route |-> "standard_session", slept |-> 0, sent_at |-> 0,
                 server |-> [fails |-> 0, failure |-> 503, final |-> 200],
                 attempts |-> 0, outcome |-> "returned", n |-> 0]

\* a caller fetches a URL, some time after the previous request
Fetch ==
  /\ httpCall.n < MaxFetches
  /\ httpClient = "SecureHTTPClient"
  /\ \E e \in FetchEnvs :
       \E res \in {fetch(e.url, e.bypass_cloudflare, None, lastRequestTime,
                         httpClock + e.pause, e.jitter, e.server)} :
         /\ httpClock' = res.clock
         /\ lastRequestTime' = res.last
         /\ httpCall' = res.call
  /\ UNCHANGED httpClient
  /\ UNCHANGED <<now, tasks, shutdown, loop, threads, finishedAt, stopCall>>
  /\ UNCHANGED <<dedupVars, feedVars, execCall, pipeVars, calcVars>>

\* a caller fetches a URL through a TorHTTPClient
TorFetch ==
  /\ httpCall.n < MaxFetches
  /\ httpClient = "TorHTTPClient"
  /\ \E e \in FetchEnvs :
       \E res \in {tor_fetch(e.url, e.bypass_cloudflare, lastRequestTime,
                             httpClock + e.pause, e.jitter, e.server)} :
         /\ httpClock' = res.clock
         /\ lastRequestTime' = res.last
         /\ httpCall' = res.call
  /\ UNCHANGED httpClient
  /\ UNCHANGED <<now, tasks, shutdown, loop, threads, finishedAt, stopCall>>
  /\ UNCHANGED <<dedupVars, feedVars, execCall, pipeVars, calcVars>>

HttpNext ==
  \/ Fetch
  \/ TorFetch

(***************************************************************************)
(* RiskEngine and RelevanceEngine (processors/)                            *)
(*                                                                         *)
(* The metadata of an indicator is a dict with a "description" (a set of   *)
(* words), and optionally a "group", a "known_ransomware_campaign_use"     *)
(* flag and a "first_seen" date.  Its text, str(metadata) or               *)
(* json.dumps(metadata), shows the words, the keys and the values.         *)
(* Relevance scores are in thousandths.                                    *)
(***************************************************************************)
ThreatWords == {"ransomware", "campaign", "botnet"}
SectorWords == {"finance", "aviation"}
PlaceWords == {"uae emirates airlines, dubai international airport"}
Metadatas ==
  [words : SUBSET (ThreatWords \cup SectorWords \cup PlaceWords),
   group : {"", "lockbit"},
   known_ransomware_campaign_use : {"absent", "false", "true"},
   first_seen : {"", "2024-01-01"}]
\* the vulnerabilities of one feed, the domains of two others
Indicators ==
  {[source |-> st[1], ioc_type |-> st[2], metadata |-> metadata] :
     st \in {<<"cisa_kev", "cve">>, <<"Ransomware_Live", "domain">>,
             <<"abuse_ch", "domain">>},
     metadata \in Metadatas}

\* the tokens of the text of a metadata dict
MetadataText(metadata) ==
  {"description"} \cup metadata.words
    \cup (IF metadata.group # "" THEN {"group", metadata.group} ELSE {})
    \cup (IF metadata.known_ransomware_campaign_use # "absent"
            THEN {"known_ransomware_campaign_use",
                  metadata.known_ransomware_campaign_use}
            ELSE {})
    \cup (IF metadata.first_seen # "" THEN {"first_seen", metadata.first_seen} ELSE {})

\* keyword in text, for the keywords of the two engines and the tokens above:
\* the keyword is a token, or a part of one
PartOf ==
  {<<"ransomware", "known_ransomware_campaign_use">>,
   <<"ransom", "known_ransomware_campaign_use">>,
   <<"ransom", "ransomware">>,
   <<"campaign", "known_ransomware_campaign_use">>,
   <<"uae", "uae emirates airlines, dubai international airport">>,
   <<"emirates", "uae emirates airlines, dubai international airport">>,
   <<"emirates airlines", "uae emirates airlines, dubai international airport">>,
   <<"airline", "uae emirates airlines, dubai international airport">>,
   <<"dubai", "uae emirates airlines, dubai international airport">>,
   <<"dubai international", "uae emirates airlines, dubai international airport">>,
   <<"airport", "uae emirates airlines, dubai international airport">>,
   <<"it", "lockbit">>}
In(keyword, text) ==
  \E token \in text : keyword = token \/ <<keyword, token>> \in PartOf

\* calculate_risk lines 73-80: the first credible source named in the source
source_score(source) ==
  CASE lower(source) = "cisa_kev" -> 30
    [] lower(source) = "ransomware_live" -> 25
    [] lower(source) = "alienvault_otx" -> 18
    [] lower(source) = "malpedia" -> 15
    [] OTHER -> 5

Min(a, b) == IF a <= b THEN a ELSE b

\* the exploitability factors matched by an indicator, lines 89-101
MatchedFactors(ioc) ==
  LET metadata_str == MetadataText(ioc.metadata) IN
    (IF ioc.ioc_type = "cve" THEN {30} ELSE {})
    \cup (IF In("ransomware", metadata_str) \/ In("ransom", metadata_str)
            THEN {20} ELSE {})
    \cup (IF In("campaign", metadata_str) \/ In("active", metadata_str)
            THEN {25} ELSE {})
    \cup (IF In("botnet", metadata_str) THEN {15} ELSE {})
    \cup (IF In("malware", metadata_str) THEN {10} ELSE {})

RECURSIVE SumOf(_)
SumOf(S) == IF S = {} THEN 0 ELSE LET x == CHOOSE x \in S : TRUE IN x + SumOf(S \ {x})

\* calculate_risk lines 85-104
ExploitabilitySum(ioc) == SumOf(MatchedFactors(ioc))
exploitability_score(ioc) ==
  LET matched == MatchedFactors(ioc) IN
    IF matched = {} THEN 0 ELSE CHOOSE m \in matched : \A k \in matched : k <= m

\* calculate_risk lines 106-120
sector_score(metadata) ==
  LET metadata_str == MetadataText(metadata) IN
    IF \E sector \in {"government", "finance", "healthcare", "energy"} :
         In(sector, metadata_str)
      THEN 20
    ELSE IF \E sector \in {"aviation", "technology", "telecom"} :
              In(sector, metadata_str)
      THEN 10
    ELSE 0

\* calculate_risk lines 122-130
actor_score(metadata) ==
  IF metadata.known_ransomware_campaign_use = "true" THEN 20
  ELSE IF metadata.group # "" THEN 15
  ELSE 0

\* calculate_risk lines 135-143
LevelAbove(risk_score) ==
  IF risk_score > 70 THEN "critical"
  ELSE IF risk_score > 50 THEN "high"
  ELSE IF risk_score > 30 THEN "medium"
  ELSE "low"
risk_level(risk_score) ==
  IF risk_score >= 70 THEN "critical"
  ELSE IF risk_score >= 50 THEN "high"
  ELSE IF risk_score >= 30 THEN "medium"
  ELSE "low"

\* calculate_risk lines 56-149
calculate_risk(ioc) ==
  LET breakdown == [source_credibility |-> source_score(ioc.source),
                    exploitability |-> exploitability_score(ioc),
                    sector_relevance |-> sector_score(ioc.metadata),
                    threat_actor_activity |-> actor_score(ioc.metadata)]
      risk_score == Min(breakdown.source_credibility + breakdown.exploitability
                          + breakdown.sector_relevance
                          + breakdown.threat_actor_activity, 100)
  IN  [risk_score |-> risk_score, risk_level |-> risk_level(risk_score),
       breakdown |-> breakdown]

UAE_KEYWORDS ==
  {"uae", "united arab emirates", "dubai", "abu dhabi", "sharjah", "emirates",
   "dirham", "aed", "dubai international", "emirates airlines"}
SECTOR_KEYWORDS ==
  {"government", "ministry", "federal", "municipality", "authority",
   "bank", "financial", "investment", "insurance", "credit", "payment",
   "oil", "gas", "petroleum", "energy", "power", "electricity",
   "hospital", "medical", "health", "clinic", "pharmacy",
   "airline", "airport", "aviation", "aircraft",
   "hotel", "tourism", "travel", "resort", "hospitality",
   "retail", "mall", "shopping", "store", "supermarket",
   "tech", "software", "it", "telecom", "communications"}

\* calculate_relevance lines 60-110, in thousandths
RelevanceOfScored(ioc) ==
  IF ioc.rel_scored THEN Min(ioc.relevance_score + 100, 1000) ELSE 0
calculate_relevance(ioc) ==
  LET combined_text == {lower(ioc.ioc_value)} \cup MetadataText(ioc.metadata)
      uae_score ==
        Min(100 * Cardinality({k \in UAE_KEYWORDS : In(k, combined_text)}), 400)
      sector ==
        Min(50 * Cardinality({k \in SECTOR_KEYWORDS : In(k, combined_text)}), 300)
      credible == IF lower(ioc.source) \in {"cisa_kev", "ransomware_live"}
                    THEN 200 ELSE 0
      recency == IF ioc.metadata.first_seen # "" THEN 100 ELSE 0
  IN  Min(uae_score + sector + credible + recency, 1000)

\* an indicator as the engines receive it, without scores
Unscored(ind) ==
  [source |-> ind.source, ioc_type |-> ind.ioc_type,
   ioc_value |-> IF ind.ioc_type = "cve" THEN "CVE-2024-1234" ELSE "evil.example",
   metadata |-> ind.metadata,
   risk_scored |-> FALSE, risk_score |-> 0, risk_level |-> "",
   risk_breakdown |-> [source_credibility |-> 0, exploitability |-> 0,
                       sector_relevance |-> 0, threat_actor_activity |-> 0],
   rel_scored |-> FALSE, relevance_score |-> 0]

\* the metadata of an indicator with one thing added: a word, a group, the
\* campaign flag
Additions(metadata) ==
  {[metadata EXCEPT !.words = @ \cup {w}] :
     w \in (ThreatWords \cup SectorWords \cup PlaceWords) \ metadata.words}
  \cup (IF metadata.group = "" THEN {[metadata EXCEPT !.group = "lockbit"]} ELSE {})
  \cup (IF metadata.known_ransomware_campaign_use = "absent"
          THEN {[metadata EXCEPT !.known_ransomware_campaign_use = v] :
                  v \in {"false", "true"}}
          ELSE {})

ScoreInit(batch) == scoreCall = [batch |-> batch, rescored |-> FALSE]
ScoreIdle == ScoreInit(<<>>)

\* RiskEngine.score_batch lines 151-170
risk_score_batch(iocs) ==
  [i \in 1..Len(iocs) |->
     LET risk_assessment == calculate_risk(iocs[i]) IN
       [iocs[i] EXCEPT !.risk_scored = TRUE,
                       !.risk_score = risk_assessment.risk_score,
                       !.risk_level = risk_assessment.risk_level,
                       !.risk_breakdown = risk_assessment.breakdown]]

\* RelevanceEngine.score_batch lines 112-129
relevance_score_batch(iocs) ==
  [i \in 1..Len(iocs) |->
     [iocs[i] EXCEPT !.rel_scored = TRUE,
                     !.relevance_score = calculate_relevance(iocs[i])]]

RiskScoreBatch ==
  /\ scoreCall.batch # <<>>
  /\ scoreCall' = [batch |-> risk_score_batch(scoreCall.batch),
                   rescored |-> scoreCall.rescored
                                  \/ \E i \in 1..Len(scoreCall.batch) :
                                       scoreCall.batch[i].risk_scored]
  /\ UNCHANGED <<now, tasks, shutdown, loop, threads, finishedAt, stopCall>>
  /\ UNCHANGED <<dedupVars, feedVars, execCall, pipeVars, httpVars, readCall,
                 normCall, feedsTable, managerCall, statsCall>>

RelevanceScoreBatch ==
  /\ scoreCall.batch # <<>>
  /\ scoreCall' = [batch |-> relevance_score_batch(scoreCall.batch),
                   rescored |-> scoreCall.rescored
                                  \/ \E i \in 1..Len(scoreCall.batch) :
                                       scoreCall.batch[i].rel_scored]
  /\ UNCHANGED <<now, tasks, shutdown, loop, threads, finishedAt, stopCall>>
  /\ UNCHANGED <<dedupVars, feedVars, execCall, pipeVars, httpVars, readCall,
                 normCall, feedsTable, managerCall, statsCall>>

ScoreNext ==
  \/ RiskScoreBatch
  \/ RelevanceScoreBatch

(***************************************************************************)
(* RansomwareMonitorFeed (feeds/darkweb/monitor.py)                        *)
(*                                                                         *)
(* Sizes are scaled: a chunk of iter_content is ChunkSize bytes (8192 in   *)
(* the code) and max_response_size is MaxResponseSize bytes (10 MB).  A    *)
(* byte is "a" (ASCII), "L" (the lead byte of a two-byte UTF-8 character)  *)
(* or "c" (a continuation byte).                                           *)
(***************************************************************************)
ChunkSize == 2
MaxResponseSize == 4
Bytes == {"a", "L", "c"}
Bodies == UNION {[1..n -> Bytes] : n \in 0..(MaxResponseSize + ChunkSize + 1)}

\* response.iter_content(chunk_size): the body in consecutive slices
Chunks(body) ==
  [i \in 1..((Len(body) + ChunkSize - 1) \div ChunkSize) |->
     SubSeq(body, (i - 1) * ChunkSize + 1,
            IF i * ChunkSize < Len(body) THEN i * ChunkSize ELSE Len(body))]

\* bytes.decode("utf-8", errors="ignore"): a lead byte and its continuation
\* byte make one character, every other non-ASCII byte is dropped
RECURSIVE Decode(_)
Decode(b) ==
  IF b = <<>> THEN <<>>
  ELSE IF Head(b) = "a" THEN <<"a">> \o Decode(Tail(b))
  ELSE IF Head(b) = "L" /\ Len(b) >= 2 /\ b[2] = "c"
         THEN <<"Lc">> \o Decode(Tail(Tail(b)))
  ELSE Decode(Tail(b))

\* _safe_read_response lines 76-80: the loop from chunk i on
RECURSIVE ReadLoop(_, _, _, _)
ReadLoop(chunks, i, total_size, content) ==
  IF i > Len(chunks)
    THEN [outcome |-> "returned", text |-> content, total_size |-> total_size]
  ELSE IF total_size + Len(chunks[i]) > MaxResponseSize
    THEN [outcome |-> "raised", text |-> content,
          total_size |-> total_size + Len(chunks[i])]
  ELSE ReadLoop(chunks, i + 1, total_size + Len(chunks[i]),
                content \o Decode(chunks[i]))

_safe_read_response(body) == ReadLoop(Chunks(body), 1, 0, <<>>)

\* a response of body `body` has arrived and is not read yet
ReadInit(body) ==
  readCall = [op |-> "response", body |-> body, outcome |-> "returned",
              text |-> <<>>, total_size |-> 0]

NormIdle == NormInit(Candidate("cve", ""), Candidate("cve", ""))
CalcInit == ReadInit(<<>>) /\ NormIdle /\ ScoreIdle /\ ManagerInit /\ StatsIdle

\* fetch lines 46-47: the monitor reads the response of one source
SafeRead ==
  /\ readCall.op = "response"
  /\ \E res \in {_safe_read_response(readCall.body)} :
       readCall' = [op |-> "read", body |-> readCall.body,
                    outcome |-> res.outcome, text |-> res.text,
                    total_size |-> res.total_size]
  /\ UNCHANGED <<now, tasks, shutdown, loop, threads, finishedAt, stopCall>>
  /\ UNCHANGED <<dedupVars, feedVars, execCall, pipeVars, httpVars, normCall,
                 scoreCall, feedsTable, managerCall, statsCall>>

MonitorNext == SafeRead

vars ==
  <<now, tasks, shutdown, loop, threads, finishedAt, stopCall,
    seen, cacheFile, dedupCall, dedupThreads, stateFile, evidence, stats, execCall,
    enabledCache, victimSink, indicatorSink, pipeCall, runCall,
    httpClient, httpClock, lastRequestTime, httpCall, readCall, normCall,
    scoreCall, feedsTable, managerCall, statsCall>>

\* the state after construction: the tasks scheduled, an empty Deduplicator,
\* the feeds registered and enabled with no run yet
Init ==
  /\ SchedInit
  /\ DedupInit
  /\ FeedInit
  /\ PipeInit(Feeds)
  /\ HttpInit("SecureHTTPClient")
  /\ CalcInit

\* the state after construction with every task enabled
InitIdle ==
  /\ Init
  /\ \A t \in TaskIds : tasks[t].enabled

\* the state after construction over a feeds table that may hold a
\* disabled feed
InitPipe ==
  /\ SchedInit
  /\ \A t \in TaskIds : tasks[t].enabled
  /\ DedupInit
  /\ FeedInit
  /\ \E off \in SUBSET {"alienvault_otx"} : PipeInit(Feeds \ off)
  /\ HttpInit("SecureHTTPClient")
  /\ CalcInit

SpecSched == Init /\ [][SchedNext]_vars
\* the scheduler with a loop whose statements take no time, never stopped
SpecTimed == Init /\ [][TimedNext]_vars
\* fair scheduling: the loop thread and every started wrapper thread keep
\* getting the processor and time keeps passing, while a task function may
\* run for ever
Fairness ==
  /\ WF_vars(TimedTick)
  /\ WF_vars(LoopStep)
  /\ \A i \in ThreadIds :
       /\ WF_vars(WrapperCheck(i))
       /\ WF_vars(WrapperMark(i))
       /\ WF_vars(HandlerLogs(i))
       /\ WF_vars(WrapperClear(i))
       /\ WF_vars(WrapperReschedule(i))

\* the same scheduler, never stopped, under fair scheduling
SpecFair == Init /\ [][TimedNext]_vars /\ Fairness
\* the scheduler while schedule_task is called on a scheduled task
SpecResched == Init /\ [][ReschedNext]_vars

SpecDedup == InitIdle /\ [][DedupNext]_vars
\* two threads inside deduplicate on one shared Deduplicator
SpecRace == InitIdle /\ [][RaceNext]_vars

Spec == InitIdle /\ [][ExecNext]_vars

SpecPipe == InitPipe /\ [][PipeNext]_vars

\* two threads inside FeedDAO.update_stats for one feed
SpecStats == InitIdle /\ [][StatsNext]_vars

\* the state after construction with an HTTP client of either class
InitHttp ==
  /\ SchedInit
  /\ \A t \in TaskIds : tasks[t].enabled
  /\ DedupInit
  /\ FeedInit
  /\ PipeInit(Feeds)
  /\ \E client \in Clients : HttpInit(client)
  /\ CalcInit

\* one HTTP client and its callers
SpecHttp == InitHttp /\ [][HttpNext]_vars
\* a monitor holding the response of a source, of any body
InitMonitor ==
  /\ SchedInit
  /\ \A t \in TaskIds : tasks[t].enabled
  /\ DedupInit
  /\ FeedInit
  /\ PipeInit(Feeds)
  /\ HttpInit("SecureHTTPClient")
  /\ \E body \in Bodies : ReadInit(body)
  /\ NormIdle
  /\ ScoreIdle
  /\ ManagerInit
  /\ StatsIdle

SpecMonitor == InitMonitor /\ [][MonitorNext]_vars
SpecManager == InitIdle /\ [][ManagerNext]_vars

\* a normalizer about to be called on two indicators, of any type and value
InitNorm ==
  /\ SchedInit
  /\ \A t \in TaskIds : tasks[t].enabled
  /\ DedupInit
  /\ FeedInit
  /\ PipeInit(Feeds)
  /\ HttpInit("SecureHTTPClient")
  /\ ReadInit(<<>>)
  /\ \E a \in RawIocs, b \in RawIocs : NormInit(a, b)
  /\ ScoreIdle
  /\ ManagerInit
  /\ StatsIdle

SpecNorm == InitNorm /\ [][NormNext]_vars

\* the engines about to score a batch of two indicators: any indicator, and
\* the same indicator with one thing added to its metadata
InitScore ==
  /\ SchedInit
  /\ \A t \in TaskIds : tasks[t].enabled
  /\ DedupInit
  /\ FeedInit
  /\ PipeInit(Feeds)
  /\ HttpInit("SecureHTTPClient")
  /\ ReadInit(<<>>)
  /\ NormIdle
  /\ ManagerInit
  /\ StatsIdle
  /\ \E ind \in Indicators :
       \E more \in Additions(ind.metadata) :
         ScoreInit(<<Unscored(ind), Unscored([ind EXCEPT !.metadata = more])>>)

SpecScore == InitScore /\ [][ScoreNext]_vars

(***************************************************************************)
(* Claims about the Scheduler (SpecSched)                                  *)
(***************************************************************************)
\* the executions of task t that are in flight: the threads between the
\* wrapper's guard and its finally clause
InFlight(t) ==
  {i \in ThreadIds : threads[i].task = t /\ threads[i].pc \in {"checked", "running"}}

\* C1: for every task, at most one execution of the task's function is in
\* flight at any time, whatever the interleaving of the loop and the threads
C1_NoOverlap == \A t \in TaskIds : Cardinality(InFlight(t)) <= 1

(***************************************************************************)
(* Claims about the FeedManager (Spec)                                     *)
(***************************************************************************)
\* C2: execute_feed passes last_run = None to the fetch of every feed that
\* does not support incremental fetching, whatever run state was saved
C2_FullFetchGetsNone ==
  (execCall.op = "execute_feed" /\ ~supports_incremental(execCall.feed))
    => execCall.fetch_arg = NoTimestamp

\* a non-incremental feed is executed while an earlier execution's state
\* file holds a timestamp
C2_Witness ==
  /\ execCall.op = "execute_feed"
  /\ ~supports_incremental(execCall.feed)
  /\ stateFile[execCall.feed].status = "ok"
  /\ stateFile[execCall.feed].last_run < execCall.at

\* C7: an execution whose payload fails validation raises the validation
\* error, issues one failure update with count 0, and leaves the evidence
\* store, the state file and the ingested total as they were
C7_InvalidPayloadStopsRun ==
  [][(execCall'.op = "execute_feed" /\ execCall' # execCall
        /\ execCall'.validated = "false")
      => LET f == execCall'.feed
             msg == ErrorMessage("validation")
         IN  /\ execCall'.outcome = "raised"
             /\ execCall'.exc = msg
             /\ Len(execCall'.stat_calls) = 1
             /\ execCall'.stat_calls[1].success = FALSE
             /\ execCall'.stat_calls[1].count = 0
             /\ execCall'.stat_calls[1].error = msg
             /\ evidence'[f] = evidence[f]
             /\ stateFile'[f] = stateFile[f]
             /\ stats'[f].total_iocs_collected = stats[f].total_iocs_collected
             /\ stats'[f].success_count = stats[f].success_count
             /\ execCall'.stat_calls[1].db = "ok"
                  => /\ stats'[f].error_count = stats[f].error_count + 1
                     /\ stats'[f].last_error = msg]_vars

\* a feed with evidence and run state from an earlier execution returns a
\* payload that fails validation, and the failure reaches its row
C7_Witness ==
  /\ execCall.op = "execute_feed"
  /\ execCall.validated = "false"
  /\ Len(evidence[execCall.feed]) = 1
  /\ stateFile[execCall.feed].status = "ok"
  /\ stats[execCall.feed].error_count = 1
  /\ stats[execCall.feed].total_iocs_collected > 0

\* C8: an execution in which a step raises issues a failure update carrying
\* the exception's message and the time, and raises that same exception; a
\* statistics store that fails while recording changes neither
C8_FailureRecordedAndReraised ==
  execCall.op = "execute_feed" =>
    LET f == execCall.feed
        n == Len(execCall.stat_calls)
    IN  /\ (execCall.failed # "none") = (execCall.outcome = "raised")
        /\ execCall.outcome = "raised" =>
             /\ execCall.exc = ErrorMessage(execCall.failed)
             /\ n >= 1
             /\ execCall.stat_calls[n].success = FALSE
             /\ execCall.stat_calls[n].error = execCall.exc
             /\ execCall.stat_calls[n].db = "ok"
                  => /\ stats[f].last_error = execCall.exc
                     /\ stats[f].last_run = execCall.at
                     /\ stats[f].error_count >= 1

\* the evidence write raises and the statistics store raises while the
\* failure is being recorded
C8_Witness ==
  /\ execCall.op = "execute_feed"
  /\ execCall.failed = "evidence"
  /\ execCall.outcome = "raised"
  /\ execCall.stat_calls[1].db \in {"conn_raises", "cursor_raises"}

(***************************************************************************)
(* Claims about the CTIPipeline (SpecPipe)                                 *)
(***************************************************************************)
\* C3: a process_feed execution persists records in a sink only when
\* feed.validate returned true for the fetched payload in that execution
C3_PersistOnlyAfterValidation ==
  (pipeCall.op = "process_feed" /\ pipeCall.persisted /\ pipeCall.handed # <<>>)
    => pipeCall.validated = "true"

\* no key occurs twice in a sink's sequence of persisted keys
NoRepeat(sink) ==
  \A i, j \in 1..Len(sink) : i < j => sink[i] # sink[j]

Failing(call) == call.failed # "none" \/ ~call.valid

\* the enabled feeds of the driver's list, in order
EnabledInOrder == SelectSeq(FeedOrder, LAMBDA f : f \in enabledCache)

\* C5: run_all_feeds returns one result per enabled feed, in which exactly
\* the failing feeds have success = false and carry the error message
C5_RunIsolatesFailures ==
  runCall.op = "run_all_feeds" =>
    /\ runCall.outcome = "returned"
    /\ Len(runCall.results) = Len(EnabledInOrder)
    /\ \A i \in 1..Len(runCall.results) :
         /\ runCall.calls[i].feed = EnabledInOrder[i]
         /\ runCall.results[i].success = ~Failing(runCall.calls[i])
         /\ Failing(runCall.calls[i]) => runCall.results[i].error # ""

\* C6: a process_feed execution in which a step fails returns a result with
\* success = false and has recorded a failure, and no success, in the
\* feed's statistics; it does not raise
C6_FailureNeverRaises ==
  (pipeCall.op = "process_feed" /\ pipeCall.failed # "none") =>
    LET n == Len(pipeCall.stat_calls) IN
      /\ pipeCall.outcome = "returned"
      /\ pipeCall.result.success = FALSE
      /\ n >= 1
      /\ pipeCall.stat_calls[n].success = FALSE
      /\ \A i \in 1..n :
           pipeCall.stat_calls[i].success => pipeCall.stat_calls[i].db # "ok"

(***************************************************************************)
(* Claims about the Deduplicator (SpecDedup)                               *)
(***************************************************************************)
\* the last call was a deduplicate of the batch of the call before it, with
\* no other call on the Deduplicator in between
Repeated == dedupCall.op = "deduplicate" /\ dedupCall.repeat

\* C9 (as stated): for every batch, a second deduplicate call on it, with no
\* other change to the cache in between, returns none of the items of the batch.
C9_SecondPassEmpty ==
  Repeated =>
    \A i \in 1..Len(dedupCall.out), j \in 1..Len(dedupCall.batch) :
      dedupCall.out[i] # dedupCall.batch[j]

\* C9 (amended): a second deduplicate call on the same batch returns none of
\* the batch's items that carry a non-empty fingerprint; what it returns are
\* exactly the items without a fingerprint, which every call passes through.
C9_SecondPassOnlyUnfingerprinted ==
  Repeated =>
    /\ \A i \in 1..Len(dedupCall.out) : Falsy(dedupCall.out[i].fingerprint)
    /\ dedupCall.out = SelectSeq(dedupCall.batch, LAMBDA ioc : Falsy(ioc.fingerprint))

\* C9 witness: the first pass admitted a fingerprinted item, the second pass
\* on the same batch has run
C9_Witness ==
  /\ Repeated
  /\ \E i \in 1..Len(dedupCall.prev_out) : ~Falsy(dedupCall.prev_out[i].fingerprint)

\* the items of the batch before position i
EarlierFingerprints(batch, i) == {batch[j].fingerprint : j \in 1..(i - 1)}

\* position i of the batch is unseen: not in the cache before the call and
\* not earlier in the batch
Unseen(batch, before, i) ==
  /\ batch[i].fingerprint \notin before
  /\ batch[i].fingerprint \notin EarlierFingerprints(batch, i)

\* the items of batch[1..k] at the positions in P, in input order
RECURSIVE Kept(_, _, _)
Kept(batch, k, P) ==
  IF k = 0 THEN <<>>
  ELSE IF k \in P THEN Append(Kept(batch, k - 1, P), batch[k])
       ELSE Kept(batch, k - 1, P)

\* C10 (as stated): deduplicate returns exactly the items whose fingerprint
\* was not in the cache before the call and did not occur earlier in the
\* batch, in input order, and afterwards the fingerprint of every returned
\* item is in the cache.
C10_AdmitIffUnseen ==
  dedupCall.op = "deduplicate" =>
    /\ dedupCall.out =
         Kept(dedupCall.batch, Len(dedupCall.batch),
              {i \in 1..Len(dedupCall.batch) :
                 Unseen(dedupCall.batch, dedupCall.seen_before, i)})
    /\ \A i \in 1..Len(dedupCall.out) : dedupCall.out[i].fingerprint \in seen

\* C10 (amended): deduplicate returns, in input order, exactly the items
\* that have no (or an empty) fingerprint together with the items whose
\* non-empty fingerprint was not in the cache before the call and did not
\* occur earlier in the batch; afterwards the cache is the cache before the
\* call plus the non-empty fingerprints of the returned items (an item
\* without a fingerprint is always returned and never recorded).
C10_AdmitIffUnseenOrUnfingerprinted ==
  dedupCall.op = "deduplicate" =>
    /\ dedupCall.out =
         Kept(dedupCall.batch, Len(dedupCall.batch),
              {i \in 1..Len(dedupCall.batch) :
                 \/ Falsy(dedupCall.batch[i].fingerprint)
                 \/ Unseen(dedupCall.batch, dedupCall.seen_before, i)})
    /\ seen = dedupCall.seen_before \cup
                ({dedupCall.out[i].fingerprint : i \in 1..Len(dedupCall.out)}
                   \ {None, ""})

\* C10 witness: a batch with two admitted items in order, and one with a
\* fingerprint repeated inside the batch of which only the first is returned
C10_Witness ==
  /\ dedupCall.op = "deduplicate"
  /\ Len(dedupCall.batch) = 2
  /\ dedupCall.batch[1].fingerprint = dedupCall.batch[2].fingerprint
  /\ dedupCall.batch[1] # dedupCall.batch[2]
  /\ dedupCall.out = <<dedupCall.batch[1]>>
  /\ dedupCall.seen_before # {}


\* C12: the cache only grows and survives restarts: after every call of
\* deduplicate or add_fingerprint the seen set contains what it contained
\* before the call, and a Deduplicator constructed later over the same cache
\* directory knows every fingerprint the earlier instance had admitted (all
\* calls of the earlier instance have returned when the next is constructed).
C12_CacheGrowsAndSurvivesRestart == dedupCall.seen_before \subseteq seen

\* C13: a Deduplicator constructed over a corrupt or unreadable cache file is
\* constructed without an exception and starts with an empty cache, so no
\* fingerprint is a duplicate for it.
C13_BadCacheFileStartsEmpty ==
  (dedupCall.op = "construct" /\ dedupCall.load_failed) =>
    /\ ~dedupCall.raised
    /\ seen = {}
    /\ \A fingerprint \in Fingerprints : ~is_duplicate(fingerprint, seen)

\* the instance before the restart held fingerprints and the file it left
\* behind cannot be loaded
C13_Witness ==
  /\ dedupCall.op = "construct"
  /\ dedupCall.load_failed
  /\ cacheFile.status = "corrupt"
  /\ dedupCall.seen_before = Fingerprints
  /\ seen = {}


\* the fingerprints of the records a caller's deduplicate has admitted
AdmittedBy(i) ==
  {dedupThreads[i].unique[j].fingerprint : j \in 1..Len(dedupThreads[i].unique)}
    \ {None, ""}

\* C11: when two deduplicate calls run concurrently on the shared
\* Deduplicator, no fingerprint is admitted by both of them, whatever the
\* interleaving.
C11_AdmittedByAtMostOneCall ==
  \A fingerprint \in Fingerprints :
    ~(fingerprint \in AdmittedBy(1) /\ fingerprint \in AdmittedBy(2))


\* C19: every process_feed call whose fetch returned a payload writes the raw
\* evidence of that payload, whether or not a later step (parse, normalize,
\* deduplicate, score, persist, statistics) fails; only a failure of the
\* evidence store itself is left aside.
C19_EvidenceWrittenWhateverFollows ==
  (/\ pipeCall.op = "process_feed"
   /\ pipeCall.fetched
   /\ pipeCall.failed # "evidence") => pipeCall.wrote_evidence


\* C16: once the shutdown event is set, the loop starts no further task
\* execution: no step taken while the event is set starts a thread for a
\* task, even when the event was set in the middle of the loop's scan.
C16_NoStartAfterShutdown ==
  [][shutdown =>
       \A i \in ThreadIds :
         ~(threads[i].pc = "none" /\ threads'[i].pc = "spawned")]_vars


\* a step in which the loop starts a new execution of task t
Starts(t) ==
  \E i \in ThreadIds :
    /\ threads[i].pc = "none"
    /\ threads'[i] = [pc |-> "spawned", task |-> t]

\* C14: when an execution of a task has finished at time T, by return or by
\* exception, the wrapper sets next_run to the wall-clock time plus the
\* interval (not to the old due time plus the interval), and no new execution
\* of the task is started before T + interval.
C14_NoRestartBeforeInterval ==
  [][\A t \in TaskIds :
       /\ (\E i \in ThreadIds :
             threads[i] = [pc |-> "reschedule", task |-> t] /\ threads'[i].pc = "ended")
            => tasks'[t].next_run = now + tasks[t].interval_seconds
       /\ (Starts(t) /\ finishedAt[t] # NoTime)
            => now >= finishedAt[t] + tasks[t].interval_seconds]_vars

\* C17: when stop() returns before its timeout has elapsed, every task
\* execution that was running when stop() was called has finished: none of
\* the threads that were inside their task function at the call is still
\* inside it.
C17_StopWaitsForExecutions ==
  (stopCall.pc = "returned" /\ ~stopCall.timed_out) =>
    \A i \in stopCall.running : threads[i].pc # "running"


\* the threads of a task that have been started and have not ended
Live(t) ==
  {i \in ThreadIds : threads[i].pc \notin {"none", "ended"} /\ threads[i].task = t}

\* C18: the loop never waits for an execution to complete: whatever stays in
\* flight and for however long, an enabled task that is due and has no
\* execution of its own is started within one poll interval of its due time
\* (as long as the loop has a thread to start), and no thread is ever started
\* for a disabled task.
C18_LoopNeverBlocks ==
  /\ \A t \in TaskIds :
       (/\ tasks[t].enabled
        /\ Live(t) = {}
        /\ \E i \in ThreadIds : threads[i].pc = "none")
         => now <= tasks[t].next_run + PollSeconds
  /\ \A t \in TaskIds : ~tasks[t].enabled => Live(t) = {}

\* the execution of "feeds" is still in flight at the end of the horizon, and
\* "cleanup" was started, has run and is waiting for its next occurrence
C18_Witness ==
  /\ now = MaxTime
  /\ threads[1] = [pc |-> "running", task |-> "feeds"]
  /\ threads[2].pc = "ended"
  /\ tasks["cleanup"].run_count = 1
  /\ tasks["cleanup"].next_run = IntervalSeconds


\* thread i is in the handler of an exception raised by the function of t
Raised(i, t) == threads[i] = [pc |-> "except", task |-> t]

\* what a thread does with an exception of the task function: the raise
\* changes nothing but the thread's own position, the handler falls through
\* to the finally clause, which clears is_running and then sets next_run
RaiseStaysInWrapper ==
  \A i \in ThreadIds :
    /\ (threads[i].pc = "running" /\ threads'[i].pc = "except") =>
         /\ loop' = loop /\ shutdown' = shutdown /\ tasks' = tasks
         /\ \A j \in ThreadIds \ {i} : threads'[j] = threads[j]
    /\ (threads[i].pc = "except" /\ threads'[i] # threads[i]) =>
         threads'[i] = [threads[i] EXCEPT !.pc = "finally"]
    /\ (threads[i].pc = "finally" /\ threads'[i] # threads[i]) =>
         /\ threads'[i] = [threads[i] EXCEPT !.pc = "reschedule"]
         /\ ~tasks'[threads[i].task].is_running
    /\ (threads[i].pc = "reschedule" /\ threads'[i] # threads[i]) =>
         /\ threads'[i].pc = "ended"
         /\ tasks'[threads[i].task].next_run =
              now + tasks[threads[i].task].interval_seconds

\* the task of thread i has been started again, or cannot be within the
\* bounds: the loop has no thread left to start, or the clock has stopped at
\* its horizon before the rescheduled next_run
StartedAgain(i, t) ==
  \/ Live(t) \ {i} # {}
  \/ \A j \in ThreadIds : threads[j].pc # "none"
  \/ (now < tasks[t].next_run /\ now + PollSeconds > MaxTime)

\* C15: an exception of a task function stays inside the wrapper thread (the
\* loop and the other threads are untouched), the wrapper returns the task
\* to idle and reschedules it, its thread ends, and in a scheduler that is
\* not stopped the task is eventually started again.
C15_RaisingTaskIsRescheduled ==
  /\ [][RaiseStaysInWrapper]_vars
  /\ \A i \in ThreadIds, t \in TaskIds :
       /\ Raised(i, t) ~> (threads[i].pc = "ended")
       /\ Raised(i, t) ~> StartedAgain(i, t)

\* the only enabled task raised in the first thread, was rescheduled within
\* the horizon and runs again in the second thread
C15_Witness ==
  /\ ~shutdown
  /\ ~tasks["feeds"].enabled
  /\ threads[1].pc = "ended"
  /\ tasks["cleanup"].run_count = 0
  /\ finishedAt["cleanup"] = 0
  /\ tasks["cleanup"].next_run = IntervalSeconds
  /\ now = IntervalSeconds
  /\ threads[2] = [pc |-> "running", task |-> "cleanup"]


\* C20: a request for a URL whose host is a .onion address, in any form (with
\* or without port, path or query) and whatever bypass_cloudflare is, is sent
\* through the standard session and never through the anti-bot transport.
C20_OnionNeverThroughScraper ==
  (httpCall.op = "fetch" /\ IsOnionHost(httpCall.url)) =>
    httpCall.route = "standard_session"


\* C21: every request issued through a TorHTTPClient, whatever the URL, is
\* sent through the standard session (the one configured with the
\* anonymizing proxy) and never through the anti-bot transport.
C21_TorNeverThroughScraper ==
  (httpCall.op = "fetch" /\ httpClient = "TorHTTPClient") =>
    httpCall.route = "standard_session"


\* C22: a request is issued at least rate_limit_delay after every earlier
\* request of the client to the same network host, and it is suspended only
\* when there was an earlier request to that host (never because of a request
\* to a different host).  URLs without a network location are left aside;
\* the keys of the table are network locations, whose host Hostname gives.
C22_SameHostRequestsApart ==
  [][(httpCall'.n = httpCall.n + 1 /\ Netloc(httpCall'.url) # <<>>) =>
       /\ \A d \in DOMAIN lastRequestTime :
            Hostname(d) = Hostname(httpCall'.url) =>
              httpCall'.sent_at >= lastRequestTime[d] + RateLimitDelay
       /\ httpCall'.slept > 0 =>
            \E d \in DOMAIN lastRequestTime :
              Hostname(d) = Hostname(httpCall'.url)]_vars


\* C23: every fetch, on either transport, makes a bounded number of attempts:
\* an attempt that ends in a status of the forcelist or in a transport error
\* is retried while retries are left (so a server that recovers within
\* max_retries is answered by its final status, and one that does not makes
\* the call raise after max_retries + 1 attempts), and a response with
\* another non-2xx status is not retried and raises after one attempt.
C23_BoundedRetries ==
  httpCall.op = "fetch" =>
    /\ httpCall.attempts <= MaxRetries + 1
    /\ httpCall.server.fails > MaxRetries =>
         (httpCall.attempts = MaxRetries + 1 /\ httpCall.outcome = "raised")
    /\ httpCall.server.fails <= MaxRetries =>
         /\ httpCall.attempts = httpCall.server.fails + 1
         /\ httpCall.outcome =
              (IF httpCall.server.final = 200 THEN "returned" ELSE "raised")


\* C24: the bounded read never returns content larger than the cap, never
\* accumulates more than one chunk beyond the cap, raises for every response
\* larger than the cap, and returns the full content of every response whose
\* size is at most the cap.
C24_BoundedRead ==
  readCall.op = "read" =>
    /\ readCall.outcome = "returned" => Len(readCall.text) <= MaxResponseSize
    /\ readCall.total_size <= MaxResponseSize + ChunkSize
    /\ Len(readCall.body) > MaxResponseSize => readCall.outcome = "raised"
    /\ Len(readCall.body) <= MaxResponseSize =>
         (readCall.outcome = "returned" /\ readCall.text = Decode(readCall.body))


\* C25: two normalized records have equal fingerprints if and only if they
\* have the same type and the same canonical value, whatever type strings
\* the indicators were given.
C25_FingerprintIffTypeAndValue ==
  (normCall.op = "normalize" /\ normCall.na # NoneIoc /\ normCall.nb # NoneIoc) =>
    ((normCall.na.fingerprint = normCall.nb.fingerprint)
       <=> (/\ normCall.na.ioc_type = normCall.nb.ioc_type
            /\ normCall.na.ioc_value = normCall.nb.ioc_value))


\* C26: run_all_feeds processes no feed that is_feed_enabled rejects, and it
\* returns a summary that holds the time of the run and one result per
\* enabled feed of its input, in input order.
C26_RunSkipsDisabledAndReturnsAll ==
  runCall.op = "run_all_feeds" =>
    /\ \A i \in 1..Len(runCall.calls) : is_feed_enabled(runCall.calls[i].feed)
    /\ runCall.outcome = "returned"
    /\ runCall.at \in 1..now
    /\ Len(runCall.results) = Len(EnabledInOrder)
    /\ \A i \in 1..Len(runCall.results) : runCall.calls[i].feed = EnabledInOrder[i]


(***************************************************************************)
(* Claims about the scoring engines (SpecScore)                            *)
(***************************************************************************)
\* C27: every risk assessment has its four factors within their caps
\* (30, 30, 20, 20), a score in 0..100 that is their sum capped at 100, and
\* the level critical from 70, high from 50, medium from 30, low below.
C27_RiskScoreAndLevel ==
  \A i \in 1..Len(scoreCall.batch) :
    LET ioc == scoreCall.batch[i]
        b == ioc.risk_breakdown
    IN  ioc.risk_scored =>
          /\ b.source_credibility \in 0..30
          /\ b.exploitability \in 0..30
          /\ b.sector_relevance \in 0..20
          /\ b.threat_actor_activity \in 0..20
          /\ ioc.risk_score \in 0..100
          /\ ioc.risk_score =
               Min(b.source_credibility + b.exploitability + b.sector_relevance
                     + b.threat_actor_activity, 100)
          /\ (ioc.risk_level = "critical") <=> (ioc.risk_score >= 70)
          /\ (ioc.risk_level = "high") <=> (50 <= ioc.risk_score /\ ioc.risk_score < 70)
          /\ (ioc.risk_level = "medium") <=> (30 <= ioc.risk_score /\ ioc.risk_score < 50)
          /\ (ioc.risk_level = "low") <=> (ioc.risk_score < 30)

\* an assessment below the threshold of critical and one exactly on it
C27_Witness ==
  /\ Len(scoreCall.batch) = 2
  /\ scoreCall.batch[1].risk_scored /\ scoreCall.batch[1].risk_level = "high"
  /\ scoreCall.batch[2].risk_scored /\ scoreCall.batch[2].risk_score = 70
  /\ scoreCall.batch[2].risk_level = "critical"

\* the metadata `more` holds everything the metadata `less` holds
Extends(more, less) ==
  /\ less.words \subseteq more.words
  /\ less.group # "" => more.group = less.group
  /\ less.known_ransomware_campaign_use # "absent" =>
       more.known_ransomware_campaign_use = less.known_ransomware_campaign_use
  /\ more.first_seen = less.first_seen

\* C28: of two indicators that differ only in that the metadata of one holds
\* more (a threat keyword, a sector keyword, an actor attribution), the one
\* holding more never has the lower risk score; and the exploitability
\* factor of an assessment is the largest of the matched factors.
C28_RiskMonotoneInKeywords ==
  \A i, j \in 1..Len(scoreCall.batch) :
    LET less == scoreCall.batch[i]
        more == scoreCall.batch[j]
    IN  (less.risk_scored /\ more.risk_scored) =>
          /\ (/\ more.source = less.source
               /\ more.ioc_type = less.ioc_type
               /\ Extends(more.metadata, less.metadata))
               => more.risk_score >= less.risk_score
          /\ \A m \in MatchedFactors(less) : m <= less.risk_breakdown.exploitability
          /\ less.risk_breakdown.exploitability \in MatchedFactors(less) \cup {0}

\* an added keyword has raised the score of an indicator that already
\* matched another exploitability factor
C28_Witness ==
  /\ Len(scoreCall.batch) = 2
  /\ scoreCall.batch[1].risk_scored /\ scoreCall.batch[2].risk_scored
  /\ scoreCall.batch[2].risk_score > scoreCall.batch[1].risk_score
  /\ Cardinality(MatchedFactors(scoreCall.batch[1])) >= 1
  /\ Cardinality(MatchedFactors(scoreCall.batch[2])) >= 2
  /\ scoreCall.batch[2].risk_breakdown.exploitability
       > scoreCall.batch[1].risk_breakdown.exploitability

\* a record of the batch without the fields the engines add
Bare(ioc) ==
  [ioc EXCEPT !.risk_scored = FALSE, !.risk_score = 0, !.risk_level = "",
              !.risk_breakdown = [source_credibility |-> 0, exploitability |-> 0,
                                  sector_relevance |-> 0,
                                  threat_actor_activity |-> 0],
              !.rel_scored = FALSE, !.relevance_score = 0]

\* C29: after every step, the risk score, risk level and relevance score of
\* a record are those of the record scored alone and afresh, whatever its
\* position and its neighbours; a record that already had a score keeps it
\* when it is scored again; and relevance is within 0.0..1.0.
C29_ScoringIdempotent ==
  [][\A i \in 1..Len(scoreCall'.batch) :
       LET old == scoreCall.batch[i]
           new == scoreCall'.batch[i]
       IN  /\ new.risk_scored =>
                /\ new.risk_score = calculate_risk(Bare(new)).risk_score
                /\ new.risk_level = calculate_risk(Bare(new)).risk_level
           /\ new.rel_scored =>
                /\ new.relevance_score = calculate_relevance(Bare(new))
                /\ new.relevance_score \in 0..1000
           /\ old.risk_scored =>
                /\ new.risk_score = old.risk_score
                /\ new.risk_level = old.risk_level
           /\ old.rel_scored => new.relevance_score = old.relevance_score]_vars

\* both engines have scored both records of a batch, one of them twice,
\* and a relevance score has reached the cap of its place factor
C29_Witness ==
  /\ scoreCall.rescored
  /\ Len(scoreCall.batch) = 2
  /\ \A i \in 1..2 : scoreCall.batch[i].risk_scored /\ scoreCall.batch[i].rel_scored
  /\ scoreCall.batch[1].relevance_score < scoreCall.batch[2].relevance_score
  /\ scoreCall.batch[2].relevance_score >= 400


(***************************************************************************)
(* Claims about the run state of a feed (Spec)                             *)
(***************************************************************************)
\* C30: the state file of a feed changes only in an execute_feed of that
\* feed: an execution that returns saves its timestamp, one that raises
\* leaves the file as it was or unreadable.  An execution of an incremental
\* feed passes to fetch the timestamp the file holds, and None when the file
\* is absent or unreadable; so fetch receives the timestamp of the feed's
\* most recent successful execution, and None when there is none to read.
C30_LastRunIsLastSuccess ==
  [][/\ execCall' = execCall => stateFile' = stateFile
     /\ execCall' # execCall =>
          LET f == execCall'.feed IN
            /\ \A g \in Feeds \ {f} : stateFile'[g] = stateFile[g]
            /\ supports_incremental(f) =>
                 execCall'.fetch_arg =
                   (IF stateFile[f].status = "ok" THEN stateFile[f].last_run
                    ELSE NoTimestamp)
            /\ execCall'.outcome = "returned" =>
                 stateFile'[f] = StateFileOf(execCall'.at)
            /\ execCall'.outcome = "raised" =>
                 (stateFile'[f] = stateFile[f] \/ stateFile'[f].status # "ok")]_vars

\* an incremental feed is executed after an earlier execution of it has
\* succeeded, and fetch receives that execution's timestamp
C30_Witness ==
  /\ execCall.op = "execute_feed"
  /\ supports_incremental(execCall.feed)
  /\ execCall.fetch_arg # NoTimestamp
  /\ execCall.fetch_arg < execCall.at
  /\ stats[execCall.feed].last_success # execCall.fetch_arg


\* C31: the state file of a feed is written only in an execute_feed call of
\* that feed whose fetch returned, whose payload passed validation and whose
\* evidence was written; a call that fails at fetch, at validation or at the
\* evidence write leaves every state file exactly as it was.
C31_MarkerOnlyAfterEvidence ==
  [][\A f \in Feeds :
       /\ stateFile'[f] # stateFile[f] =>
            /\ execCall' # execCall
            /\ execCall'.feed = f
            /\ execCall'.fetched
            /\ execCall'.validated = "true"
            /\ Len(evidence'[f]) = Len(evidence[f]) + 1
       /\ (execCall' # execCall
             /\ execCall'.failed \in {"fetch", "validation", "evidence"})
            => stateFile'[f] = stateFile[f]]_vars

\* the evidence write of a feed raises while its state file holds the
\* timestamp of an earlier execution
C31_Witness ==
  /\ execCall.op = "execute_feed"
  /\ execCall.failed = "evidence"
  /\ stateFile[execCall.feed].status = "ok"
  /\ stateFile[execCall.feed].last_run < execCall.at


(***************************************************************************)
(* Claims about the cache of enabled feeds (SpecManager)                   *)
(***************************************************************************)
\* C32: after a register_feed(name, enabled) that stored the change and
\* whose refresh succeeded, is_feed_enabled(name) = enabled; and after a
\* construction or registration whose refresh failed, the cache is the set
\* it was before the call.
C32_CacheIsLastGoodRefresh ==
  managerCall.op \in {"__init__", "register_feed"} =>
    /\ (managerCall.op = "register_feed" /\ managerCall.stored
          /\ managerCall.refresh = "ok")
         => (is_feed_enabled(managerCall.name) = managerCall.enabled)
    /\ managerCall.refresh = "failed" => enabledCache = managerCall.cache_before


(***************************************************************************)
(* Claims about the order of the pipeline's steps (SpecPipe)               *)
(***************************************************************************)
\* the steps the claim names, in its order
ClaimedOrder ==
  <<"fetch", "parse", "normalize", "deduplicate", "score", "persist",
    "record_success">>

\* C33: in a process_feed execution on the indicator branch, the steps that
\* were started are an initial part of fetch, parse, normalize, deduplicate,
\* score, persist, record-success, in that order; a success update is
\* issued only when the persist step returned, and its count is the number
\* of records the deduplicator admitted.
C33_IndicatorStepsInOrder ==
  (pipeCall.op = "process_feed" /\ ~IsRansomwareFeed(pipeCall.feed)) =>
    LET named == SelectSeq(pipeCall.steps,
                           LAMBDA x : \E i \in 1..Len(ClaimedOrder) : ClaimedOrder[i] = x)
    IN  /\ Len(named) <= Len(ClaimedOrder)
        /\ named = SubSeq(ClaimedOrder, 1, Len(named))
        /\ \A i \in 1..Len(pipeCall.stat_calls) :
             pipeCall.stat_calls[i].success =>
               /\ pipeCall.persisted
               /\ pipeCall.failed \notin {"fetch", "parse", "score", "persist"}
               /\ pipeCall.stat_calls[i].count = Len(pipeCall.admitted)

\* an indicator feed runs all its steps a second time: the records are
\* duplicates of the first run, and the success update counts none
C33_Witness ==
  /\ pipeCall.op = "process_feed"
  /\ ~IsRansomwareFeed(pipeCall.feed)
  /\ Len(pipeCall.steps) = 8
  /\ pipeCall.persisted
  /\ Len(pipeCall.stat_calls) = 1
  /\ pipeCall.stat_calls[1].success
  /\ pipeCall.stat_calls[1].count = 0
  /\ indicatorSink # <<>>

\* the titles a payload lists for a source, whatever the order
TitlesOf(payload, source_id) ==
  {payload.entries[i].title :
     i \in {j \in 1..Len(payload.entries) : payload.entries[j].group = source_id}}

\* C34: when a successful execution of the dark-web monitor directly follows
\* a successful one and lists, for a source, the same set of titles as
\* before, the report says changed = false for that source.
C34_SameTitlesReportUnchanged ==
  LET f == execCall.feed IN
    (/\ execCall.op = "execute_feed"
     /\ f = "Ransomware_Live"
     /\ execCall.failed = "none"
     /\ execCall.fetch_arg = execCall.at - 1
     /\ Len(evidence[f]) >= 2)
    => LET cur == evidence[f][Len(evidence[f])]
           prev == evidence[f][Len(evidence[f]) - 1]
       IN  \A s \in SourcesOf(cur) :
             TitlesOf(cur, s) = TitlesOf(prev, s) => s \notin execCall.changed

\* the fingerprints of a batch that the loop looks up in the cache
Checked(iocs) ==
  {iocs[i].fingerprint : i \in {j \in 1..Len(iocs) : ~Falsy(iocs[j].fingerprint)}}

\* C35: a call of deduplicate writes the cache file at most once, and what a
\* successful write stores is the cache after the whole batch; a call that
\* admits no new fingerprint leaves the file as it was.
C35_OneWritePerBatch ==
  [][(dedupCall'.op = "deduplicate")
      => LET new == Checked(dedupCall'.batch) \ seen IN
           /\ dedupCall'.saves <= 1
           /\ dedupCall'.saves = 0 <=> new = {}
           /\ new = {} => cacheFile' = cacheFile
           /\ new # {} => cacheFile' \in {CacheFileOf(seen \cup Checked(dedupCall'.batch)),
                                         cacheFile, CorruptCacheFile}]_vars

\* a batch of two new fingerprints was written in one write
C35_Witness ==
  /\ dedupCall.op = "deduplicate"
  /\ Cardinality(Checked(dedupCall.batch) \ dedupCall.seen_before) = 2
  /\ dedupCall.saves = 1
  /\ cacheFile = CacheFileOf(seen)

\* C36: after a feed execution whose persist step failed, a fingerprint the
\* deduplicator admitted in it is recorded in the cache only if a record with
\* that fingerprint is in the Indicator sink (so the record is admitted again
\* by the next execution).
C36_CachedOnlyIfStored ==
  (pipeCall.op = "process_feed" /\ pipeCall.failed = "persist"
     /\ ~IsRansomwareFeed(pipeCall.feed))
  => \A i \in 1..Len(pipeCall.admitted) :
       pipeCall.admitted[i] \in seen
         => \E j \in 1..Len(indicatorSink) : indicatorSink[j] = pipeCall.admitted[i]

\* C37: a call of execute_feed makes exactly one statistics update for the
\* feed, a success update exactly when the call returns and a failure update
\* exactly when it raises.
C37_OneStatsUpdatePerExecution ==
  execCall.op = "execute_feed"
  => /\ Len(execCall.stat_calls) = 1
     /\ execCall.stat_calls[1].success <=> execCall.outcome = "returned"

C39_NoSecondStartAfterReschedule ==
  [][\A j \in ThreadIds :
       (threads[j].pc = "none" /\ threads'[j].pc = "spawned")
       => ~\E i \in ThreadIds :
             /\ threads[i].pc = "running"
             /\ TaskIdOf(threads[i].task) = threads'[j].task]_vars

====
